---- MODULE Spec2Model ----
(***************************************************************************)
(* DBFS-T: the append-only data log (log_manager.rs), the transaction      *)
(* engine over the KV store (tx_engine.rs), the file-system operations of  *)
(* the VFS adapter (rvfs_adapter.rs), and the write-ahead log with its     *)
(* transaction manager (wal.rs, transaction.rs, operation.rs).             *)
(*                                                                         *)
(* Spec      the namespace operations behind the engine mutex: one         *)
(*           operation at a time, one step per KV commit, with a crash     *)
(*           possible between any two steps.                               *)
(* SpecData  the data path of one regular file: write_at in its two steps, *)
(*           truncate, remount, crash.                                     *)
(* SpecWal   the transaction manager: begin, record, commit,               *)
(*           commit_into_wal_only, replay, with a crash possible between   *)
(*           any two storage writes or applies.                            *)
(* SpecStale the data path with a second file that comes and goes.         *)
(* SpecDir   the directory operations, readdir and set_attr.               *)
(* SpecAttr  the data path of one regular file with set_attr.               *)
(* SpecWrites write_at on one file called from several threads.             *)
(* SpecConc  the transaction manager called from several threads, with     *)
(*           readers of state_lock; SpecConcFair adds the scheduling.      *)
(***************************************************************************)
EXTENDS Integers, Sequences, FiniteSets, TLC

\* ------------------------------------------------------------------ bounds
MaxIno == 3
MaxWriteLen == 2
MaxOff == 2
MaxExtents == 2
DevLogSize == 3
MaxOverrun == 1
MaxTxnOps == 2
MaxTxns == 2
MaxOps == 3
MaxFaults == 1
MaxCrashes == 1
MaxReplays == 2
MaxReaddir == 2

\* ------------------------------------------------------- program constants
ROOT_INO == 1
db_reserved_size == 33554432
S_IFMT == 61440
S_IFDIR == 16384
S_IFREG == 32768
ROOT_MODE == 16877
FILE_PERM == 420
DIR_PERM == 493
WAL_SIZE_LIMIT_64K == 16

VARIABLES
    inodes,           \* KV bucket "inodes": ino -> InodeMetadata
    dirs,             \* KV buckets "dir_<ino>": ino -> (name -> child ino)
    disk,             \* the block device's bytes from db_reserved_size on
    next_append_pos,  \* LogManager.next_append_pos
    handles,          \* inode numbers of the DbfsInode handles callers hold
    pc,               \* the operation in progress under the engine mutex
    last,             \* the last finished operation and its result
    history           \* the successful write_at calls since the mount, the crashes,
                      \* the ranges append_data returned since the mount

fsvars == <<inodes, dirs, disk, next_append_pos, handles, pc, last, history>>

VARIABLES
    wal_entries,      \* WriteAheadLog.entries
    wal_storage,      \* the WalStorage's bytes (MockStorage.data)
    wal_next_offset,  \* WriteAheadLog.next_offset
    next_txn_id,      \* TransactionManager.next_txn_id
    bfs,              \* the bottom file system the logical ops are applied to
    wpc,              \* the manager call in progress, under the wal mutex
    wlast,            \* the last finished manager call and its result
    pending,          \* entries flushed to the WAL whose transaction is unapplied
    wal_history,      \* entries appended since the last truncate, ids committed,
                      \* the transaction a crash interrupted, its replayed ops
    budget            \* faults, crashes, replays, transactions and ops still to come

walvars == <<wal_entries, wal_storage, wal_next_offset, next_txn_id, bfs, wpc,
             wlast, pending, wal_history, budget>>

VARIABLES
    tpc,              \* each caller thread's position in its call
    wal_mutex,        \* TransactionManager.wal: 0, or the thread that holds it
    state_lock,       \* TransactionManager.state_lock: its writer and readers
    trace,            \* each thread's last call, its ops and its steps so far
    torn              \* ids of transactions commit applied in part and left

concvars == <<tpc, wal_mutex, state_lock, trace, torn>>

vars == <<fsvars, walvars, concvars>>

\* --------------------------------------------------------------- helpers
Min(a, b) == IF a < b THEN a ELSE b
Max(a, b) == IF a > b THEN a ELSE b

RECURSIVE SetMax(_)
SetMax(S) == IF S = {} THEN 0
             ELSE LET x == CHOOSE y \in S : TRUE
                  IN Max(x, SetMax(S \ {x}))

Zeros(n) == [i \in 1..n |-> 0]

Names == {"a", "b"}
Bytes == {1, 2}
DataSet == UNION {[1..n -> Bytes] : n \in 1..MaxWriteLen}
Offsets == 0..MaxOff
Inos == 1..MaxIno
Threads == {1, 2}
Readers == {3, 4}
DevEnd == db_reserved_size + DevLogSize

\* mode & S_IFMT == S_IFDIR
IsDir(mode) == ((mode % (S_IFMT + 4096)) \div 4096) * 4096 = S_IFDIR

\* ------------------------------------------------------------------ crc32
\* A u32 is kept as its 32 bits, least significant first.
ByteBits(b) == [i \in 1..32 |-> IF i <= 8 THEN (b \div (2 ^ (i - 1))) % 2 ELSE 0]
XorBits(a, b) == [i \in 1..Len(a) |-> (a[i] + b[i]) % 2]
\* 0xEDB88320
CrcPoly == <<0,0,0,0,0,1,0,0, 1,1,0,0,0,0,0,1, 0,0,0,1,1,1,0,1, 1,0,1,1,0,1,1,1>>
ShiftRight(c) == [i \in 1..32 |-> IF i < 32 THEN c[i + 1] ELSE 0]

RECURSIVE CrcRounds(_, _)
CrcRounds(c, k) ==
    IF k = 0 THEN c
    ELSE CrcRounds(IF c[1] # 0 THEN XorBits(ShiftRight(c), CrcPoly)
                   ELSE ShiftRight(c), k - 1)

RECURSIVE CrcBytes(_, _, _)
CrcBytes(c, data, i) ==
    IF i > Len(data) THEN c
    ELSE CrcBytes(CrcRounds(XorBits(c, ByteBits(data[i])), 8), data, i + 1)

crc32_of(data) ==
    LET c == CrcBytes([i \in 1..32 |-> 1], data, 1)
    IN [i \in 1..32 |-> 1 - c[i]]

\* The checksums of the payloads written in this model, computed once.
crc32_known == [d \in DataSet |-> SubSeq(crc32_of(d), 1, 32)] @@ <<>>

crc32(data) == IF data \in DOMAIN crc32_known THEN crc32_known[data] ELSE crc32_of(data)

\* ----------------------------------------------------------- block device
\* RamDisk: a write or read that reaches past the end of the device is cut
\* short, and one that starts at or past the end transfers nothing.
dev_write_at(d, pos, buf) ==
    [p \in DOMAIN d |->
        IF p >= pos /\ p < pos + Len(buf) THEN buf[p - pos + 1] ELSE d[p]]

dev_read_at(d, pos, buf) ==
    [i \in 1..Len(buf) |->
        IF pos + i - 1 \in DOMAIN d THEN d[pos + i - 1] ELSE buf[i]]

\* ------------------------------------------------------------ log manager
\* An append_data that leaves the cursor where it was.
append_data_keeps_cursor(d, pos, data) ==
    [disk |-> dev_write_at(d, pos, data),
     next |-> pos,
     ptr  |-> pos]

\* LogManager::append_data: the device write's byte count is not looked at.
append_data(d, pos, data) ==
    [disk |-> dev_write_at(d, pos, data),
     next |-> pos + Len(data),
     ptr  |-> pos]

read_data(d, pos, buf) == dev_read_at(d, pos, buf)

\* ------------------------------------------------------------- the engine
Extent(off, ptr, len, crc) ==
    [logical_off |-> off, physical_ptr |-> ptr, len |-> len, crc |-> crc]

InodeMetadata(ino, size, mode, nlink, extents) ==
    [ino |-> ino, size |-> size, mode |-> mode, nlink |-> nlink,
     extents |-> extents]

Put(bucket, k, v) ==
    [x \in (DOMAIN bucket) \cup {k} |-> IF x = k THEN v ELSE bucket[x]]

Del(bucket, k) == [x \in (DOMAIN bucket) \ {k} |-> bucket[x]]

\* A write_index that replaces the extent vector by the new extent.
write_index_overwrites(ino_tab, ino, offset, data, p_ptr) ==
    IF ino \notin DOMAIN ino_tab THEN [ok |-> FALSE, inodes |-> ino_tab]
    ELSE LET meta == ino_tab[ino]
             ext  == Extent(offset, p_ptr, Len(data), crc32(data))
         IN [ok |-> TRUE,
             inodes |-> [ino_tab EXCEPT ![ino] =
                 [meta EXCEPT !.extents = <<ext>>,
                              !.size = Max(@, offset + Len(data))]]]

\* TransactionEngine::write_file_transactional, from the batch on: the
\* read-modify-write of the inode record and the commit.
write_index(ino_tab, ino, offset, data, p_ptr) ==
    IF ino \notin DOMAIN ino_tab THEN [ok |-> FALSE, inodes |-> ino_tab]
    ELSE LET meta == ino_tab[ino]
             ext  == Extent(offset, p_ptr, Len(data), crc32(data))
         IN [ok |-> TRUE,
             inodes |-> [ino_tab EXCEPT ![ino] =
                 [meta EXCEPT !.extents = Append(@, ext),
                              !.size = Max(@, offset + Len(data))]]]

\* TransactionEngine::read_file: the loop over the extent vector.
RECURSIVE read_loop(_, _, _, _, _, _, _)
read_loop(d, extents, i, offset, read_len, total_read, buf) ==
    IF i > Len(extents) \/ total_read >= read_len
    THEN [n |-> total_read, buf |-> buf]
    ELSE LET extent == extents[i]
             extent_end == extent.logical_off + extent.len
             request_end == offset + read_len
         IN IF extent.logical_off < request_end /\ extent_end > offset
            THEN LET overlap_start == Max(extent.logical_off, offset)
                     overlap_end == Min(extent_end, request_end)
                     extent_offset == overlap_start - extent.logical_off
                     buf_offset == overlap_start - offset
                     copy_len == overlap_end - overlap_start
                     temp_buf == read_data(d, extent.physical_ptr + extent_offset,
                                           Zeros(copy_len))
                     nbuf == [k \in 1..Len(buf) |->
                                IF k > buf_offset /\ k <= buf_offset + copy_len
                                THEN temp_buf[k - buf_offset] ELSE buf[k]]
                 IN read_loop(d, extents, i + 1, offset, read_len,
                              Max(total_read, buf_offset + copy_len), nbuf)
            ELSE read_loop(d, extents, i + 1, offset, read_len, total_read, buf)

\* TransactionEngine::read_file on the caller's buffer buf.
read_file(ino_tab, d, ino, offset, buf) ==
    IF ino \notin DOMAIN ino_tab THEN [ok |-> FALSE, n |-> 0, buf |-> buf]
    ELSE LET meta == ino_tab[ino]
         IN IF offset >= meta.size THEN [ok |-> TRUE, n |-> 0, buf |-> buf]
            ELSE LET read_len == Min(Len(buf), meta.size - offset)
                     r == read_loop(d, meta.extents, 1, offset, read_len, 0, buf)
                 IN [ok |-> TRUE, n |-> r.n, buf |-> r.buf]

\* TransactionEngine::allocate_inode: the largest key of "inodes", or 1, plus 1.
next_ino(ino_tab) == Max(1, SetMax(DOMAIN ino_tab)) + 1

allocate_inode(ino_tab, mode) ==
    LET new_ino == next_ino(ino_tab)
    IN Put(ino_tab, new_ino, InodeMetadata(new_ino, 0, mode, 1, <<>>))

\* An add_dentry that commits nothing.
add_dentry_lost(dir_tab, parent_ino, name, child_ino) == dir_tab

\* TransactionEngine::add_dentry: get_or_create_bucket, then put.
add_dentry(dir_tab, parent_ino, name, child_ino) ==
    IF parent_ino \in DOMAIN dir_tab
    THEN [dir_tab EXCEPT ![parent_ino] = Put(@, name, child_ino)]
    ELSE Put(dir_tab, parent_ino, [x \in {name} |-> child_ino])

\* TransactionEngine::lookup_dentry: 0 stands for Err(NotFound).
lookup_dentry(dir_tab, parent_ino, name) ==
    IF parent_ino \in DOMAIN dir_tab /\ name \in DOMAIN dir_tab[parent_ino]
    THEN dir_tab[parent_ino][name]
    ELSE 0

\* TransactionEngine::delete_dentry: fails without the bucket or the key.
delete_dentry(dir_tab, parent_ino, name) ==
    IF parent_ino \in DOMAIN dir_tab /\ name \in DOMAIN dir_tab[parent_ino]
    THEN [ok |-> TRUE, dirs |-> [dir_tab EXCEPT ![parent_ino] = Del(@, name)]]
    ELSE [ok |-> FALSE, dirs |-> dir_tab]

\* TransactionEngine::delete_inode: the record and, if any, the dir bucket.
delete_inode(ino_tab, dir_tab, ino) ==
    IF ino \in DOMAIN ino_tab
    THEN [ok |-> TRUE, inodes |-> Del(ino_tab, ino), dirs |-> Del(dir_tab, ino)]
    ELSE [ok |-> FALSE, inodes |-> ino_tab, dirs |-> dir_tab]

\* TransactionEngine::update_metadata
update_metadata(ino_tab, meta) == Put(ino_tab, meta.ino, meta)

\* TransactionEngine::truncate_file: the rebuilt extent vector.
RECURSIVE truncate_extents(_, _)
truncate_extents(extents, new_size) ==
    IF extents = <<>> THEN <<>>
    ELSE LET extent == Head(extents)
             rest == truncate_extents(Tail(extents), new_size)
         IN IF extent.logical_off < new_size
            THEN IF extent.logical_off + extent.len > new_size
                 THEN <<[extent EXCEPT !.len = new_size - extent.logical_off]>> \o rest
                 ELSE <<extent>> \o rest
            ELSE rest

truncate_file(ino_tab, ino, new_size) ==
    IF ino \notin DOMAIN ino_tab THEN [ok |-> FALSE, inodes |-> ino_tab]
    ELSE LET meta == ino_tab[ino]
             kept == IF new_size < meta.size
                     THEN truncate_extents(meta.extents, new_size)
                     ELSE meta.extents
         IN [ok |-> TRUE,
             inodes |-> [ino_tab EXCEPT ![ino] =
                 [meta EXCEPT !.extents = kept, !.size = new_size]]]

\* ---------------------------------------------------------------- mount
\* DbfsFsType::mount on a device that holds no "inodes" bucket yet.
FsInit ==
    /\ inodes = [i \in {ROOT_INO} |-> InodeMetadata(ROOT_INO, 0, ROOT_MODE, 2, <<>>)]
    /\ dirs = [i \in {ROOT_INO} |-> [n \in {".", ".."} |-> ROOT_INO]]
    /\ disk = [p \in db_reserved_size..(DevEnd - 1) |-> 0]
    /\ next_append_pos = db_reserved_size
    /\ handles = {ROOT_INO}
    /\ pc = [op |-> "idle"]
    /\ last = [op |-> "mount", ino |-> ROOT_INO, arg |-> <<>>, ok |-> TRUE, ret |-> 0]
    /\ history = [clean |-> TRUE, writes |-> <<>>, crashes |-> 0, appends |-> <<>>]

Idle == pc.op = "idle"
Snapshot == [inodes |-> inodes, dirs |-> dirs, disk |-> disk]
\* The result of a finished call; of a failed call only the error is kept.
Ret(op, ino, arg, ok, ret) ==
    [op |-> op, ino |-> ino, arg |-> IF ok THEN arg ELSE <<>>, ok |-> ok, ret |-> ret]

\* DbfsFsType::mount on a device that already holds the file system: the KV
\* store and the device are as they were left, the log manager is built anew.
mount_cursor == db_reserved_size

Remount ==
    /\ Idle
    /\ next_append_pos' = mount_cursor
    /\ handles' = {ROOT_INO}
    /\ last' = Ret("remount", ROOT_INO, <<>>, TRUE, 0)
    /\ history' = [history EXCEPT !.clean = FALSE, !.writes = <<>>, !.appends = <<>>]
    /\ UNCHANGED <<inodes, dirs, disk, pc>>
    /\ UNCHANGED walvars
    /\ UNCHANGED concvars

\* The process dies between two steps of an operation and the device is
\* mounted again.
Crash ==
    /\ ~Idle
    /\ history.crashes < MaxCrashes
    /\ next_append_pos' = mount_cursor
    /\ handles' = {ROOT_INO}
    /\ pc' = [op |-> "idle"]
    /\ last' = Ret("crash", pc.ino, pc, TRUE, 0)
    /\ history' = [clean |-> FALSE, writes |-> <<>>, crashes |-> history.crashes + 1,
                   appends |-> <<>>]
    /\ UNCHANGED <<inodes, dirs, disk>>
    /\ UNCHANGED walvars
    /\ UNCHANGED concvars

\* The power fails after a write_at has returned and the device is mounted
\* again. BlockDevice has no flush and no operation asks the device for
\* durability, so each byte of the log is either as last written or as the
\* device had it durably, which is as mkfs left it: lost is the set of
\* positions whose writes the device had not made durable.
Volatile == {p \in DOMAIN disk : disk[p] # 0}

PowerLoss(lost) ==
    /\ Idle
    /\ last.op = "write_at" /\ last.ok
    /\ lost \subseteq Volatile
    /\ history.crashes < MaxCrashes
    /\ disk' = [p \in DOMAIN disk |-> IF p \in lost THEN 0 ELSE disk[p]]
    /\ next_append_pos' = mount_cursor
    /\ handles' = {ROOT_INO}
    /\ last' = Ret("power_loss", ROOT_INO, [lost |-> lost], TRUE, 0)
    /\ history' = [clean |-> FALSE, writes |-> <<>>, crashes |-> history.crashes + 1,
                   appends |-> <<>>]
    /\ UNCHANGED <<inodes, dirs, pc>>
    /\ UNCHANGED walvars
    /\ UNCHANGED concvars

\* ---------------------------------------------------------- write_at
\* DbfsInode::write_at, step 1: LogManager::append_data.
WriteAt(ino, offset, data) ==
    /\ Idle
    /\ ino \in handles
    /\ next_append_pos + Len(data) <= DevEnd + MaxOverrun
    /\ ino \in DOMAIN inodes => Len(inodes[ino].extents) < MaxExtents
    /\ LET a == append_data(disk, next_append_pos, data)
       IN /\ disk' = a.disk
          /\ next_append_pos' = a.next
          /\ pc' = [op |-> "write_at", ino |-> ino, offset |-> offset,
                    data |-> data, p_ptr |-> a.ptr, pre |-> Snapshot]
          /\ history' = [history EXCEPT !.appends =
                             Append(@, [ptr |-> a.ptr, len |-> Len(data)])]
    /\ UNCHANGED <<inodes, dirs, handles, last>>
    /\ UNCHANGED walvars
    /\ UNCHANGED concvars

\* DbfsInode::write_at when the device write of append_data returns an error:
\* the `?` leaves append_data before the cursor moves, and write_at returns
\* IoError.
WriteAtDevError(ino, offset, data) ==
    /\ Idle
    /\ ino \in handles
    /\ last' = Ret("write_at", ino, <<>>, FALSE, 0)
    /\ UNCHANGED <<inodes, dirs, disk, next_append_pos, handles, pc, history>>
    /\ UNCHANGED walvars
    /\ UNCHANGED concvars

\* DbfsInode::write_at, steps 2 to 4: the batch and its commit.
WriteCommit ==
    /\ pc.op = "write_at"
    /\ LET r == write_index(inodes, pc.ino, pc.offset, pc.data, pc.p_ptr)
       IN /\ inodes' = r.inodes
          /\ last' = Ret("write_at", pc.ino,
                         [offset |-> pc.offset, data |-> pc.data, p_ptr |-> pc.p_ptr],
                         r.ok, Len(pc.data))
          /\ history' = IF r.ok
                        THEN [history EXCEPT !.writes =
                                 Append(@, [ino |-> pc.ino, offset |-> pc.offset,
                                            data |-> pc.data])]
                        ELSE history
    /\ pc' = [op |-> "idle"]
    /\ UNCHANGED <<dirs, disk, next_append_pos, handles>>
    /\ UNCHANGED walvars
    /\ UNCHANGED concvars

\* The successful writes of the history that cover byte position p of ino.
Covering(ino, p) ==
    {k \in DOMAIN history.writes :
        /\ history.writes[k].ino = ino
        /\ history.writes[k].offset <= p
        /\ p < history.writes[k].offset + Len(history.writes[k].data)}

\* What read_at(ino, 0, buf) gives for a buffer of the file's size.
file_content(ino_tab, d, ino) ==
    IF ino \notin DOMAIN ino_tab THEN [ok |-> FALSE, n |-> 0, buf |-> <<>>]
    ELSE read_file(ino_tab, d, ino, 0, Zeros(ino_tab[ino].size))

\* A truncate(ino, len) that does not enlarge a file whose every byte was
\* written by a write of this mount.
shrinks_written(ino, len) ==
    /\ ino \in DOMAIN inodes
    /\ len <= inodes[ino].size
    /\ \A p \in 0..(inodes[ino].size - 1) : Covering(ino, p) # {}

\* DbfsInode::truncate; the call's record keeps whether it shrank a written
\* file and, if so, the first len bytes the file had before it.
Truncate(ino, len) ==
    /\ Idle
    /\ ino \in handles
    /\ LET r == truncate_file(inodes, ino, len)
       IN /\ inodes' = r.inodes
          /\ last' = Ret("truncate", ino,
                         [len |-> len,
                          shrinks |-> shrinks_written(ino, len),
                          before |-> IF shrinks_written(ino, len)
                                     THEN SubSeq(file_content(inodes, disk, ino).buf, 1, len)
                                     ELSE <<>>],
                         r.ok, 0)
    /\ history' = [history EXCEPT !.clean = FALSE, !.writes = <<>>]
    /\ UNCHANGED <<dirs, disk, next_append_pos, handles, pc>>
    /\ UNCHANGED walvars
    /\ UNCHANGED concvars

\* ------------------------------------------------------- create, mkdir
\* DbfsInode::create, step 1: allocate_inode and its commit.
Create(parent, name) ==
    /\ Idle
    /\ parent \in handles
    /\ next_ino(inodes) <= MaxIno
    /\ inodes' = allocate_inode(inodes, S_IFREG + FILE_PERM)
    /\ pc' = [op |-> "create", ino |-> parent, name |-> name,
              new_ino |-> next_ino(inodes), pre |-> Snapshot]
    /\ UNCHANGED <<dirs, disk, next_append_pos, handles, last, history>>
    /\ UNCHANGED walvars
    /\ UNCHANGED concvars

\* DbfsInode::create, step 2: add_dentry and its commit.
CreateAddDentry ==
    /\ pc.op = "create"
    /\ dirs' = add_dentry(dirs, pc.ino, pc.name, pc.new_ino)
    /\ handles' = handles \cup {pc.new_ino}
    /\ last' = Ret("create", pc.ino, [name |-> pc.name], TRUE, pc.new_ino)
    /\ pc' = [op |-> "idle"]
    /\ UNCHANGED <<inodes, disk, next_append_pos, history>>
    /\ UNCHANGED walvars
    /\ UNCHANGED concvars

\* DbfsInode::mkdir, step 1: allocate_inode and its commit.
Mkdir(parent, name) ==
    /\ Idle
    /\ parent \in handles
    /\ next_ino(inodes) <= MaxIno
    /\ inodes' = allocate_inode(inodes, S_IFDIR + DIR_PERM)
    /\ pc' = [op |-> "mkdir", ino |-> parent, name |-> name,
              new_ino |-> next_ino(inodes), pre |-> Snapshot]
    /\ UNCHANGED <<dirs, disk, next_append_pos, handles, last, history>>
    /\ UNCHANGED walvars
    /\ UNCHANGED concvars

\* DbfsInode::mkdir, step 2: add_dentry and its commit.
MkdirAddDentry ==
    /\ pc.op = "mkdir"
    /\ dirs' = add_dentry(dirs, pc.ino, pc.name, pc.new_ino)
    /\ handles' = handles \cup {pc.new_ino}
    /\ last' = Ret("mkdir", pc.ino, [name |-> pc.name], TRUE, pc.new_ino)
    /\ pc' = [op |-> "idle"]
    /\ UNCHANGED <<inodes, disk, next_append_pos, history>>
    /\ UNCHANGED walvars
    /\ UNCHANGED concvars

\* DbfsInode::lookup
Lookup(parent, name) ==
    /\ Idle
    /\ parent \in handles
    /\ LET ino == lookup_dentry(dirs, parent, name)
       IN /\ handles' = IF ino = 0 THEN handles ELSE handles \cup {ino}
          /\ last' = Ret("lookup", parent, [name |-> name], ino # 0, ino)
    /\ UNCHANGED <<inodes, dirs, disk, next_append_pos, pc, history>>
    /\ UNCHANGED walvars
    /\ UNCHANGED concvars

\* --------------------------------------------------------------- unlink
\* DbfsInode::unlink, steps 1 and 2: lookup_dentry, then delete_dentry and
\* its commit.
Unlink(parent, name) ==
    /\ Idle
    /\ parent \in handles
    /\ LET child_ino == lookup_dentry(dirs, parent, name)
       IN IF child_ino = 0
          THEN /\ last' = Ret("unlink", parent, [name |-> name], FALSE, "NoEntry")
               /\ UNCHANGED <<dirs, pc>>
          ELSE /\ dirs' = delete_dentry(dirs, parent, name).dirs
               /\ pc' = [op |-> "unlink", ino |-> parent, name |-> name,
                         child_ino |-> child_ino, pre |-> Snapshot]
               /\ UNCHANGED last
    /\ UNCHANGED <<inodes, disk, next_append_pos, handles, history>>
    /\ UNCHANGED walvars
    /\ UNCHANGED concvars

\* DbfsInode::unlink, step 3: the child's nlink, then delete_inode or
\* update_metadata and its commit.
unlink_inode(ino_tab, dir_tab, child_ino) ==
    IF child_ino \notin DOMAIN ino_tab
    THEN [ok |-> FALSE, inodes |-> ino_tab, dirs |-> dir_tab]
    ELSE LET child_meta == ino_tab[child_ino]
             nlink == IF child_meta.nlink > 0 THEN child_meta.nlink - 1
                      ELSE child_meta.nlink
         IN IF nlink = 0
            THEN delete_inode(ino_tab, dir_tab, child_ino)
            ELSE [ok |-> TRUE,
                  inodes |-> update_metadata(ino_tab, [child_meta EXCEPT !.nlink = nlink]),
                  dirs |-> dir_tab]

UnlinkInode ==
    /\ pc.op = "unlink"
    /\ LET r == unlink_inode(inodes, dirs, pc.child_ino)
       IN /\ inodes' = r.inodes
          /\ dirs' = r.dirs
          /\ last' = Ret("unlink", pc.ino, [name |-> pc.name],
                         r.ok, IF r.ok THEN "Ok" ELSE "IoError")
    /\ pc' = [op |-> "idle"]
    /\ UNCHANGED <<disk, next_append_pos, handles, history>>
    /\ UNCHANGED walvars
    /\ UNCHANGED concvars

\* ---------------------------------------------------------------- rmdir
\* An emptiness check that finds every directory empty.
has_dentries_never(dir_tab, ino) == FALSE

\* TransactionEngine::list_dentries(ino, 0) is Some: the bucket has an entry.
has_dentries(dir_tab, ino) == ino \in DOMAIN dir_tab /\ DOMAIN dir_tab[ino] # {}

\* DbfsInode::rmdir, steps 1 to 4a: the checks, then delete_dentry and its
\* commit.
Rmdir(parent, name) ==
    /\ Idle
    /\ parent \in handles
    /\ LET child_ino == lookup_dentry(dirs, parent, name)
           err == IF child_ino = 0 THEN "NoEntry"
                  ELSE IF child_ino \notin DOMAIN inodes THEN "IoError"
                  ELSE IF ~IsDir(inodes[child_ino].mode) THEN "NotDir"
                  ELSE IF has_dentries(dirs, child_ino) THEN "NotEmpty"
                  ELSE "Ok"
       IN IF err # "Ok"
          THEN /\ last' = Ret("rmdir", parent, [name |-> name], FALSE, err)
               /\ UNCHANGED <<dirs, pc>>
          ELSE /\ dirs' = delete_dentry(dirs, parent, name).dirs
               /\ pc' = [op |-> "rmdir", ino |-> parent, name |-> name,
                         child_ino |-> child_ino, pre |-> Snapshot]
               /\ UNCHANGED last
    /\ UNCHANGED <<inodes, disk, next_append_pos, handles, history>>
    /\ UNCHANGED walvars
    /\ UNCHANGED concvars

\* DbfsInode::rmdir, step 4b: delete_inode and its commit.
RmdirInode ==
    /\ pc.op = "rmdir"
    /\ LET r == delete_inode(inodes, dirs, pc.child_ino)
       IN /\ inodes' = r.inodes
          /\ dirs' = r.dirs
          /\ last' = Ret("rmdir", pc.ino, [name |-> pc.name],
                         r.ok, IF r.ok THEN "Ok" ELSE "IoError")
    /\ pc' = [op |-> "idle"]
    /\ UNCHANGED <<disk, next_append_pos, handles, history>>
    /\ UNCHANGED walvars
    /\ UNCHANGED concvars

\* --------------------------------------------------------------- rename
\* DbfsInode::rename_to, steps 1 to 3: lookup_dentry, then add_dentry in the
\* new parent and its commit.
RenameTo(parent, old_name, new_parent, new_name) ==
    /\ Idle
    /\ parent \in handles
    /\ new_parent \in handles
    /\ LET ino == lookup_dentry(dirs, parent, old_name)
           arg == [old_name |-> old_name, new_parent |-> new_parent,
                   new_name |-> new_name]
       IN IF ino = 0
          THEN /\ last' = Ret("rename_to", parent, arg, FALSE, "NoEntry")
               /\ UNCHANGED <<dirs, pc>>
          ELSE /\ dirs' = add_dentry(dirs, new_parent, new_name, ino)
               /\ pc' = [op |-> "rename_to", ino |-> parent, moved |-> ino,
                         arg |-> arg, pre |-> Snapshot]
               /\ UNCHANGED last
    /\ UNCHANGED <<inodes, disk, next_append_pos, handles, history>>
    /\ UNCHANGED walvars
    /\ UNCHANGED concvars

\* DbfsInode::rename_to, step 4: delete_dentry in the old parent and its
\* commit.
RenameDelete ==
    /\ pc.op = "rename_to"
    /\ LET r == delete_dentry(dirs, pc.ino, pc.arg.old_name)
       IN /\ dirs' = r.dirs
          /\ last' = Ret("rename_to", pc.ino, pc.arg, r.ok,
                         IF r.ok THEN "Ok" ELSE "IoError")
    /\ pc' = [op |-> "idle"]
    /\ UNCHANGED <<inodes, disk, next_append_pos, handles, history>>
    /\ UNCHANGED walvars
    /\ UNCHANGED concvars

\* -------------------------------------------------------------- readdir
\* The keys of a bucket in the order of its cursor: byte order.
NameOrder == <<".", "..", "a", "b">>
sorted_names(bucket) == SelectSeq(NameOrder, LAMBDA n : n \in DOMAIN bucket)

\* TransactionEngine::list_dentries: the entry at start_index of the bucket's
\* cursor; "None" without the bucket or past its end.
list_dentries(dir_tab, parent_ino, start_index) ==
    IF parent_ino \notin DOMAIN dir_tab THEN "None"
    ELSE LET keys == sorted_names(dir_tab[parent_ino])
         IN IF start_index < Len(keys)
            THEN keys[start_index + 1]
            ELSE "None"

\* DbfsInode::readdir: err is "Ok" with name "None" at the end of the
\* directory.
readdir(ino_tab, dir_tab, ino, start_index) ==
    IF ino \notin DOMAIN ino_tab THEN [err |-> "IoError", name |-> "None", ino |-> 0]
    ELSE IF ~IsDir(ino_tab[ino].mode) THEN [err |-> "NotDir", name |-> "None", ino |-> 0]
    ELSE LET name == list_dentries(dir_tab, ino, start_index)
         IN IF name = "None" THEN [err |-> "Ok", name |-> "None", ino |-> 0]
            ELSE IF dir_tab[ino][name] \notin DOMAIN ino_tab
                 THEN [err |-> "IoError", name |-> "None", ino |-> 0]
                 ELSE [err |-> "Ok", name |-> name, ino |-> dir_tab[ino][name]]

Readdir(ino, start_index) ==
    /\ Idle
    /\ ino \in handles
    /\ LET r == readdir(inodes, dirs, ino, start_index)
       IN last' = Ret("readdir", ino, [start_index |-> start_index, name |-> r.name],
                      r.err = "Ok", r.ino)
    /\ UNCHANGED <<inodes, dirs, disk, next_append_pos, handles, pc, history>>
    /\ UNCHANGED walvars
    /\ UNCHANGED concvars

\* ------------------------------------------------------------- set_attr
\* DbfsInode::set_attr: mode and size of the record are overwritten.
set_attr(ino_tab, ino, mode, size) ==
    IF ino \notin DOMAIN ino_tab THEN [ok |-> FALSE, inodes |-> ino_tab]
    ELSE [ok |-> TRUE,
          inodes |-> update_metadata(ino_tab,
                        [ino_tab[ino] EXCEPT !.mode = mode, !.size = size])]

SetAttr(ino, mode, size) ==
    /\ Idle
    /\ ino \in handles
    /\ LET r == set_attr(inodes, ino, mode, size)
       IN /\ inodes' = r.inodes
          /\ last' = Ret("set_attr", ino, [mode |-> mode, size |-> size], r.ok, 0)
    /\ UNCHANGED <<dirs, disk, next_append_pos, handles, pc, history>>
    /\ UNCHANGED walvars
    /\ UNCHANGED concvars

\* ======================================================================
\* The write-ahead log and the transaction manager
\* ======================================================================

\* TransactionOperation: the six logical operations.
OpWrite(ino, offset, data) ==
    [kind |-> "Write", ino |-> ino, offset |-> offset, data |-> data]
OpCreate(parent_ino, name) ==
    [kind |-> "Create", parent_ino |-> parent_ino, name |-> name,
     uid |-> 0, gid |-> 0, perm |-> FILE_PERM, dev |-> 0]
OpDelete(parent_ino, name) ==
    [kind |-> "Delete", parent_ino |-> parent_ino, name |-> name]
OpRename(old_parent_ino, old_name, new_parent_ino, new_name) ==
    [kind |-> "Rename", old_parent_ino |-> old_parent_ino, old_name |-> old_name,
     new_parent_ino |-> new_parent_ino, new_name |-> new_name]
OpMkdir(parent_ino, name) ==
    [kind |-> "Mkdir", parent_ino |-> parent_ino, name |-> name,
     uid |-> 0, gid |-> 0, perm |-> DIR_PERM]
OpTruncate(ino, length) ==
    [kind |-> "Truncate", ino |-> ino, length |-> length]

WalEntry(txn_id, op) == [txn_id |-> txn_id, operation |-> op]

\* The operations callers record in this model.
WalOps ==
    {OpCreate(ROOT_INO, "a"), OpMkdir(ROOT_INO, "b"), OpDelete(ROOT_INO, "a"),
     OpRename(ROOT_INO, "b", ROOT_INO, "a"), OpWrite(2, 0, <<1>>), OpTruncate(2, 0)}

\* ------------------------------------------------------- serialization
\* serde_json::to_vec(&entry): the entry as a run of storage cells, the
\* transaction id, the variant, then the variant's fields in order.
NameCode(name) == CASE name = "a" -> 1 [] name = "b" -> 2 [] OTHER -> 3
CodeName(c) == CASE c = 1 -> "a" [] c = 2 -> "b" [] OTHER -> "."

SerOp(op) ==
    CASE op.kind = "Write" ->
            <<1, op.ino, op.offset, Len(op.data)>> \o op.data
      [] op.kind = "Create" ->
            <<2, op.parent_ino, NameCode(op.name), op.uid, op.gid, op.perm, op.dev>>
      [] op.kind = "Delete" ->
            <<3, op.parent_ino, NameCode(op.name)>>
      [] op.kind = "Rename" ->
            <<4, op.old_parent_ino, NameCode(op.old_name),
              op.new_parent_ino, NameCode(op.new_name)>>
      [] op.kind = "Mkdir" ->
            <<5, op.parent_ino, NameCode(op.name), op.uid, op.gid, op.perm>>
      [] OTHER ->
            <<6, op.ino, op.length>>

to_vec(entry) == <<entry.txn_id>> \o SerOp(entry.operation)

\* serde_json::from_slice::<WalEntry>(&data): ok is FALSE for cells that are
\* no entry.
from_slice(c) ==
    LET n == Len(c)
        bad == [ok |-> FALSE, entry |-> WalEntry(0, OpDelete(0, "."))]
        name_ok(x) == x \in {1, 2, 3}
    IN IF n < 2 \/ c[1] < 1 THEN bad
       ELSE CASE c[2] = 1 /\ n >= 5 /\ n = 5 + c[5] ->
                   [ok |-> TRUE,
                    entry |-> WalEntry(c[1], OpWrite(c[3], c[4], SubSeq(c, 6, n)))]
              [] c[2] = 2 /\ n = 8 /\ name_ok(c[4]) ->
                   [ok |-> TRUE,
                    entry |-> WalEntry(c[1],
                        [kind |-> "Create", parent_ino |-> c[3], name |-> CodeName(c[4]),
                         uid |-> c[5], gid |-> c[6], perm |-> c[7], dev |-> c[8]])]
              [] c[2] = 3 /\ n = 4 /\ name_ok(c[4]) ->
                   [ok |-> TRUE,
                    entry |-> WalEntry(c[1], OpDelete(c[3], CodeName(c[4])))]
              [] c[2] = 4 /\ n = 6 /\ name_ok(c[4]) /\ name_ok(c[6]) ->
                   [ok |-> TRUE,
                    entry |-> WalEntry(c[1],
                        OpRename(c[3], CodeName(c[4]), c[5], CodeName(c[6])))]
              [] c[2] = 5 /\ n = 7 /\ name_ok(c[4]) ->
                   [ok |-> TRUE,
                    entry |-> WalEntry(c[1],
                        [kind |-> "Mkdir", parent_ino |-> c[3], name |-> CodeName(c[4]),
                         uid |-> c[5], gid |-> c[6], perm |-> c[7]])]
              [] c[2] = 6 /\ n = 4 ->
                   [ok |-> TRUE, entry |-> WalEntry(c[1], OpTruncate(c[3], c[4]))]
              [] OTHER -> bad

\* (len as u32).to_le_bytes()
to_le_bytes(n) == <<n % 256, (n \div 256) % 256, (n \div 65536) % 256, n \div 16777216>>

\* size > 1024 * 1024, read off the four little-endian bytes.
over_sanity_bound(b) ==
    \/ b[4] > 0
    \/ b[3] > WAL_SIZE_LIMIT_64K
    \/ (b[3] = WAL_SIZE_LIMIT_64K /\ (b[2] > 0 \/ b[1] > 0))

\* u32::from_le_bytes, for a size within the sanity bound.
from_le_bytes(b) == b[1] + 256 * b[2] + 65536 * b[3]

\* ----------------------------------------------------------- WalStorage
\* MockStorage::write: the vector grows, zero filled, to hold the range.
storage_write(sto, offset, data) ==
    [i \in 1..Max(Len(sto), offset + Len(data)) |->
        IF i > offset /\ i <= offset + Len(data) THEN data[i - offset]
        ELSE IF i <= Len(sto) THEN sto[i] ELSE 0]

\* MockStorage::read: an error for a range that reaches past the end.
storage_read_ok(sto, offset, len) == offset + len <= Len(sto)
storage_read(sto, offset, len) == SubSeq(sto, offset + 1, offset + len)

\* MockStorage::truncate
storage_truncate(sto, length) == SubSeq(sto, 1, Min(length, Len(sto)))

\* ------------------------------------------------------- WriteAheadLog
\* WriteAheadLog::recover: the scan of the frames from offset 0.
RECURSIVE recover_loop(_, _, _)
recover_loop(sto, offset, recovered) ==
    IF ~storage_read_ok(sto, offset, 4)
    THEN [entries |-> recovered, next_offset |-> offset]
    ELSE LET size_buf == storage_read(sto, offset, 4)
         IN IF over_sanity_bound(size_buf) \/ from_le_bytes(size_buf) = 0
            THEN [entries |-> recovered, next_offset |-> offset]
            ELSE LET size == from_le_bytes(size_buf)
                 IN IF ~storage_read_ok(sto, offset + 4, size)
                    THEN [entries |-> recovered, next_offset |-> offset + 4]
                    ELSE LET d == from_slice(storage_read(sto, offset + 4, size))
                         IN recover_loop(sto, offset + 4 + size,
                                IF d.ok THEN Append(recovered, d.entry)
                                ELSE recovered)

recover(sto) == recover_loop(sto, 0, <<>>)

\* A clear_txn that keeps the entries it should drop.
retain_same(entries, txn_id) ==
    SelectSeq(entries, LAMBDA e : e.txn_id = txn_id)

\* WriteAheadLog::clear_txn: entries.retain(|e| e.txn_id != txn_id)
retain_other(entries, txn_id) ==
    SelectSeq(entries, LAMBDA e : e.txn_id # txn_id)

\* ------------------------------------------------------ the bottom FS
\* What TransactionOperation::apply does to the file system below, one
\* operation at a time: ok is FALSE, and the file system as it was, when the
\* operation returns an error.
BfsFile(is_dir, nlink, data) == [is_dir |-> is_dir, nlink |-> nlink, data |-> data]

bfs_lookup(fs, parent, name) ==
    IF parent \in DOMAIN fs.dirs /\ name \in DOMAIN fs.dirs[parent]
    THEN fs.dirs[parent][name]
    ELSE 0

\* Write { ino, offset, data }
dbfs_write(fs, ino, offset, data) ==
    IF ino \notin DOMAIN fs.inodes THEN [ok |-> FALSE, fs |-> fs]
    ELSE LET old == fs.inodes[ino].data
             size == Max(Len(old), offset + Len(data))
             new == [i \in 1..size |->
                        IF i > offset /\ i <= offset + Len(data) THEN data[i - offset]
                        ELSE IF i <= Len(old) THEN old[i] ELSE 0]
         IN [ok |-> TRUE, fs |-> [fs EXCEPT !.inodes[ino].data = new]]

\* Truncate { ino, length }
dbfs_truncate(fs, ino, length) ==
    IF ino \notin DOMAIN fs.inodes THEN [ok |-> FALSE, fs |-> fs]
    ELSE LET old == fs.inodes[ino].data
             new == [i \in 1..length |-> IF i <= Len(old) THEN old[i] ELSE 0]
         IN [ok |-> TRUE, fs |-> [fs EXCEPT !.inodes[ino].data = new]]

\* Create { parent, name, .. } and Mkdir { parent, name, .. }: EExist for a
\* name already present; the new number is the largest key plus one.
dbfs_create(fs, parent, name, is_dir) ==
    IF parent \notin DOMAIN fs.dirs \/ name \in DOMAIN fs.dirs[parent]
    THEN [ok |-> FALSE, fs |-> fs]
    ELSE LET ino == Max(1, SetMax(DOMAIN fs.inodes)) + 1
             with_child == Put(fs.inodes, ino, BfsFile(is_dir, 1, <<>>))
             with_parent == IF is_dir /\ parent \in DOMAIN with_child
                            THEN [with_child EXCEPT ![parent].nlink = @ + 1]
                            ELSE with_child
             with_bucket == IF is_dir
                            THEN Put(fs.dirs, ino, [n \in {} |-> 0])
                            ELSE fs.dirs
         IN [ok |-> TRUE,
             fs |-> [inodes |-> with_parent,
                     dirs |-> [with_bucket EXCEPT ![parent] = Put(@, name, ino)]]]

\* Delete { parent, name }: lookup, remove dentry, decrement nlink, maybe free.
dbfs_unlink(fs, parent, name) ==
    LET ino == bfs_lookup(fs, parent, name)
    IN IF ino = 0 THEN [ok |-> FALSE, fs |-> fs]
       ELSE LET d == [fs.dirs EXCEPT ![parent] = Del(@, name)]
            IN IF ino \notin DOMAIN fs.inodes
               THEN [ok |-> TRUE, fs |-> [fs EXCEPT !.dirs = d]]
               ELSE IF fs.inodes[ino].nlink <= 1
               THEN [ok |-> TRUE,
                     fs |-> [inodes |-> Del(fs.inodes, ino), dirs |-> Del(d, ino)]]
               ELSE [ok |-> TRUE,
                     fs |-> [inodes |-> [fs.inodes EXCEPT ![ino].nlink = @ - 1],
                             dirs |-> d]]

\* Rename { old_parent, old, new_parent, new }: lookup src, add new dentry,
\* remove old.
dbfs_rename(fs, old_parent, old_name, new_parent, new_name) ==
    LET ino == bfs_lookup(fs, old_parent, old_name)
    IN IF ino = 0 \/ new_parent \notin DOMAIN fs.dirs THEN [ok |-> FALSE, fs |-> fs]
       ELSE LET added == [fs.dirs EXCEPT ![new_parent] = Put(@, new_name, ino)]
            IN [ok |-> TRUE,
                fs |-> [fs EXCEPT !.dirs =
                           [added EXCEPT ![old_parent] = Del(@, old_name)]]]

\* TransactionOperation::apply: the match on the operation.
apply(fs, op) ==
    CASE op.kind = "Write" -> dbfs_write(fs, op.ino, op.offset, op.data)
      [] op.kind = "Create" -> dbfs_create(fs, op.parent_ino, op.name, FALSE)
      [] op.kind = "Delete" -> dbfs_unlink(fs, op.parent_ino, op.name)
      [] op.kind = "Rename" -> dbfs_rename(fs, op.old_parent_ino, op.old_name,
                                           op.new_parent_ino, op.new_name)
      [] op.kind = "Mkdir" -> dbfs_create(fs, op.parent_ino, op.name, TRUE)
      [] OTHER -> dbfs_truncate(fs, op.ino, op.length)

\* The entries applied in order, up to the first that fails.
RECURSIVE apply_all(_, _)
apply_all(fs, entries) ==
    IF entries = <<>> THEN [ok |-> TRUE, fs |-> fs]
    ELSE LET r == apply(fs, Head(entries).operation)
         IN IF r.ok THEN apply_all(r.fs, Tail(entries)) ELSE r

\* The bottom file systems a manager may be started on: the root alone, and
\* the root with files "a" and "b".
BfsEmpty ==
    [inodes |-> [i \in {ROOT_INO} |-> BfsFile(TRUE, 2, <<>>)],
     dirs |-> [i \in {ROOT_INO} |-> [n \in {} |-> 0]]]
BfsStarts ==
    {BfsEmpty,
     dbfs_create(dbfs_create(BfsEmpty, ROOT_INO, "a", FALSE).fs,
                 ROOT_INO, "b", FALSE).fs}

\* No transaction: ids start at 1.
NoTxn == [id |-> 0, nops |-> 0]

\* ------------------------------------------------- TransactionManager
\* TransactionManager::new, then set_wal_storage on an empty storage.
WalInit ==
    /\ wal_entries = <<>>
    /\ wal_storage = <<>>
    /\ wal_next_offset = 0
    /\ next_txn_id = 1
    /\ bfs \in BfsStarts
    /\ wpc = [op |-> "idle"]
    /\ wlast = [op |-> "new", ok |-> TRUE, nops |-> 0, after_crash |-> FALSE,
                feasible |-> TRUE, unapplied |-> <<>>, second |-> FALSE, fs0 |-> bfs,
                id |-> 0]
    /\ pending = <<>>
    /\ wal_history = [appended |-> <<>>, committed |-> {},
                      interrupted |-> NoTxn, replayed |-> 0]
    /\ budget = [faults |-> MaxFaults, crashes |-> MaxCrashes, replays |-> MaxReplays,
                 txns |-> MaxTxns, ops |-> MaxOps]
    /\ tpc = [t \in Threads |-> [op |-> "idle"]]
    /\ wal_mutex = 0
    /\ state_lock = [writer |-> 0, readers |-> {}]
    /\ trace = [t \in Threads |-> [call |-> "none", ops |-> <<>>, events |-> <<>>]]
    /\ torn = {}

WIdle == wpc.op = "idle"

WRet(op, ok, nops) ==
    [op |-> op, ok |-> ok, nops |-> nops, after_crash |-> FALSE,
     feasible |-> TRUE, unapplied |-> <<>>, second |-> FALSE, fs0 |-> bfs,
     id |-> 0]

\* The Err a commit returns through a `?`: the record keeps the transaction's
\* id and the bottom file system as it was when the call started.
WErr ==
    [WRet(wpc.op, FALSE, Len(wpc.ops)) EXCEPT !.fs0 = wpc.fs0, !.id = wpc.id]

DropFirst(seq, n) == SubSeq(seq, Min(n, Len(seq)) + 1, Len(seq))

\* TransactionManager::begin_transaction
BeginTransaction ==
    /\ WIdle
    /\ budget.txns > 0
    /\ budget' = [budget EXCEPT !.txns = @ - 1]
    /\ wpc' = [op |-> "txn", id |-> next_txn_id, ops |-> <<>>]
    /\ next_txn_id' = next_txn_id + 1
    /\ UNCHANGED <<wal_entries, wal_storage, wal_next_offset, bfs, wlast, pending>>
    /\ UNCHANGED fsvars
    /\ UNCHANGED concvars
    /\ wal_history' = [wal_history EXCEPT !.committed = @ \ {next_txn_id}]

\* Transaction::record
Record(op) ==
    /\ wpc.op = "txn"
    /\ Len(wpc.ops) < MaxTxnOps
    /\ budget.ops > 0
    /\ budget' = [budget EXCEPT !.ops = @ - 1]
    /\ wpc' = [wpc EXCEPT !.ops = Append(@, op)]
    /\ UNCHANGED <<wal_entries, wal_storage, wal_next_offset, next_txn_id, bfs,
                   wlast, pending>>
    /\ UNCHANGED fsvars
    /\ UNCHANGED concvars
    /\ UNCHANGED wal_history

\* TransactionManager::rollback: the transaction is dropped.
Rollback ==
    /\ wpc.op = "txn"
    /\ wpc' = [op |-> "idle"]
    /\ wlast' = WRet("rollback", TRUE, Len(wpc.ops))
    /\ UNCHANGED <<wal_entries, wal_storage, wal_next_offset, next_txn_id, bfs,
                   pending, budget>>
    /\ UNCHANGED fsvars
    /\ UNCHANGED concvars
    /\ UNCHANGED wal_history

\* TransactionManager::commit and commit_into_wal_only: the wal mutex is
\* taken and the loop over txn.ops starts.
CommitCall(call) ==
    /\ wpc.op = "txn"
    /\ wpc' = [op |-> call, id |-> wpc.id, ops |-> wpc.ops, phase |-> "append",
               i |-> 1, half |-> FALSE, fs0 |-> bfs]
    /\ UNCHANGED <<wal_entries, wal_storage, wal_next_offset, next_txn_id, bfs,
                   wlast, pending, budget>>
    /\ UNCHANGED fsvars
    /\ UNCHANGED concvars
    /\ UNCHANGED wal_history

Commit == CommitCall("commit")
CommitIntoWalOnly == CommitCall("commit_into_wal_only")

InCall == wpc.op \in {"commit", "commit_into_wal_only"}
Frame == to_vec(WalEntry(wpc.id, wpc.ops[wpc.i]))

\* WriteAheadLog::append, the write of the size prefix; the call returns the
\* storage's error if the write fails.
AppendPrefix(fail) ==
    /\ InCall /\ wpc.phase = "append" /\ wpc.i <= Len(wpc.ops) /\ ~wpc.half
    /\ fail => budget.faults > 0
    /\ IF fail
       THEN /\ budget' = [budget EXCEPT !.faults = @ - 1]
            /\ wpc' = [op |-> "idle"]
            /\ wlast' = WErr
            /\ UNCHANGED <<wal_storage, wal_next_offset>>
       ELSE /\ wal_storage' = storage_write(wal_storage, wal_next_offset,
                                            to_le_bytes(Len(Frame)))
            /\ wal_next_offset' = wal_next_offset + 4
            /\ wpc' = [wpc EXCEPT !.half = TRUE]
            /\ UNCHANGED <<budget, wlast>>
    /\ UNCHANGED <<wal_entries, next_txn_id, bfs, pending>>
    /\ UNCHANGED fsvars
    /\ UNCHANGED concvars
    /\ UNCHANGED wal_history

\* WriteAheadLog::append, the write of the serialized entry and the push.
AppendPayload(fail) ==
    /\ InCall /\ wpc.phase = "append" /\ wpc.i <= Len(wpc.ops) /\ wpc.half
    /\ fail => budget.faults > 0
    /\ IF fail
       THEN /\ budget' = [budget EXCEPT !.faults = @ - 1]
            /\ wpc' = [op |-> "idle"]
            /\ wlast' = WErr
            /\ UNCHANGED <<wal_storage, wal_next_offset, wal_entries, wal_history>>
       ELSE /\ wal_storage' = storage_write(wal_storage, wal_next_offset, Frame)
            /\ wal_next_offset' = wal_next_offset + Len(Frame)
            /\ wal_entries' = Append(wal_entries, WalEntry(wpc.id, wpc.ops[wpc.i]))
            /\ wal_history' = [wal_history EXCEPT !.appended =
                                  Append(@, WalEntry(wpc.id, wpc.ops[wpc.i]))]
            /\ wpc' = [wpc EXCEPT !.half = FALSE, !.i = @ + 1]
            /\ UNCHANGED <<budget, wlast>>
    /\ UNCHANGED <<next_txn_id, bfs, pending>>
    /\ UNCHANGED fsvars
    /\ UNCHANGED concvars

TxnEntries == [k \in 1..Len(wpc.ops) |-> WalEntry(wpc.id, wpc.ops[k])]

\* WriteAheadLog::flush; commit_into_wal_only returns after it, commit goes
\* on to take the state lock and apply.
Flush(fail) ==
    /\ InCall /\ wpc.phase = "append" /\ wpc.i > Len(wpc.ops)
    /\ fail => budget.faults > 0
    /\ IF fail
       THEN /\ budget' = [budget EXCEPT !.faults = @ - 1]
            /\ wpc' = [op |-> "idle"]
            /\ wlast' = WErr
            /\ UNCHANGED pending
       ELSE /\ pending' = pending \o TxnEntries
            /\ IF wpc.op = "commit"
               THEN /\ wpc' = [wpc EXCEPT !.phase = "apply", !.i = 1]
                    /\ UNCHANGED wlast
               ELSE /\ wpc' = [op |-> "idle"]
                    /\ wlast' = WRet(wpc.op, TRUE, Len(wpc.ops))
            /\ UNCHANGED budget
    /\ UNCHANGED <<wal_entries, wal_storage, wal_next_offset, next_txn_id, bfs>>
    /\ UNCHANGED fsvars
    /\ UNCHANGED concvars
    /\ UNCHANGED wal_history

\* commit: op.apply()? for the next operation of the transaction.
ApplyStep ==
    /\ wpc.op = "commit" /\ wpc.phase = "apply" /\ wpc.i <= Len(wpc.ops)
    /\ LET r == apply(bfs, wpc.ops[wpc.i])
       IN IF r.ok
          THEN /\ bfs' = r.fs
               /\ pending' = SubSeq(pending, 1, Len(pending) - (Len(wpc.ops) - wpc.i + 1))
                             \o DropFirst(SubSeq(pending,
                                    Len(pending) - (Len(wpc.ops) - wpc.i),
                                    Len(pending)), 1)
               /\ wpc' = [wpc EXCEPT !.i = @ + 1]
               /\ UNCHANGED wlast
          ELSE /\ pending' = SubSeq(pending, 1,
                                    Len(pending) - (Len(wpc.ops) - wpc.i + 1))
               /\ wpc' = [op |-> "idle"]
               /\ wlast' = WErr
               /\ UNCHANGED bfs
    /\ UNCHANGED <<wal_entries, wal_storage, wal_next_offset, next_txn_id, budget>>
    /\ UNCHANGED fsvars
    /\ UNCHANGED concvars
    /\ UNCHANGED wal_history

\* The history after commit has cleared transaction id and returns Ok.
Committed(id, truncated) ==
    [wal_history EXCEPT !.appended = IF truncated THEN <<>> ELSE @,
                        !.committed = @ \cup {id}]

\* WriteAheadLog::clear_txn with the checkpoint it may make; a failed
\* truncate is logged and nothing else happens.
ClearTxn(fail) ==
    /\ wpc.op = "commit" /\ wpc.phase = "apply" /\ wpc.i > Len(wpc.ops)
    /\ fail => budget.faults > 0 /\ retain_other(wal_entries, wpc.id) = <<>>
    /\ wal_entries' = retain_other(wal_entries, wpc.id)
    /\ IF wal_entries' = <<>>
       THEN IF fail
            THEN /\ budget' = [budget EXCEPT !.faults = @ - 1]
                 /\ wal_history' = Committed(wpc.id, FALSE)
                 /\ UNCHANGED <<wal_storage, wal_next_offset>>
            ELSE /\ wal_storage' = storage_truncate(wal_storage, 0)
                 /\ wal_next_offset' = 0
                 /\ wal_history' = Committed(wpc.id, TRUE)
                 /\ UNCHANGED budget
       ELSE /\ wal_history' = Committed(wpc.id, FALSE)
            /\ UNCHANGED <<wal_storage, wal_next_offset, budget>>
    /\ wpc' = [op |-> "idle"]
    /\ wlast' = WRet("commit", TRUE, Len(wpc.ops))
    /\ UNCHANGED <<next_txn_id, bfs, pending>>
    /\ UNCHANGED fsvars
    /\ UNCHANGED concvars

\* TransactionManager::replay: wal.recover().
ReplayRecover ==
    /\ wpc.op \in {"idle", "mounting"}
    /\ budget.replays > 0
    /\ budget' = [budget EXCEPT !.replays = @ - 1]
    /\ LET r == recover(wal_storage)
       IN /\ wal_next_offset' = r.next_offset
          /\ wpc' = [op |-> "replay", entries |-> r.entries, i |-> 1,
                     after_crash |-> wpc.op = "mounting",
                     feasible |-> IF wpc.op = "mounting" THEN wpc.feasible ELSE TRUE,
                     second |-> wlast.op = "replay", fs0 |-> bfs]
    /\ UNCHANGED <<wal_entries, wal_storage, next_txn_id, bfs, wlast, pending>>
    /\ UNCHANGED fsvars
    /\ UNCHANGED concvars
    /\ UNCHANGED wal_history

\* replay: entry.operation.apply()? for the next recovered entry.
ReplayApply ==
    /\ wpc.op = "replay" /\ wpc.i <= Len(wpc.entries)
    /\ LET e == wpc.entries[wpc.i]
           r == apply(bfs, e.operation)
       IN IF r.ok
          THEN /\ bfs' = r.fs
               /\ pending' = IF pending # <<>> /\ Head(pending) = e
                             THEN Tail(pending) ELSE pending
               /\ wpc' = [wpc EXCEPT !.i = @ + 1]
               /\ wal_history' =
                      IF wpc.after_crash /\ e.txn_id = wal_history.interrupted.id
                      THEN [wal_history EXCEPT !.replayed = @ + 1]
                      ELSE wal_history
               /\ UNCHANGED wlast
          ELSE /\ wpc' = [op |-> "idle"]
               /\ wlast' = [op |-> "replay", ok |-> FALSE, nops |-> Len(wpc.entries),
                            after_crash |-> wpc.after_crash, feasible |-> wpc.feasible,
                 unapplied |-> pending,
                            second |-> wpc.second, fs0 |-> wpc.fs0, id |-> 0]
               /\ UNCHANGED <<bfs, pending, wal_history>>
    /\ UNCHANGED <<wal_entries, wal_storage, wal_next_offset, next_txn_id, budget>>
    /\ UNCHANGED fsvars
    /\ UNCHANGED concvars

\* replay: the loop is over, Ok(()).
ReplayDone ==
    /\ wpc.op = "replay" /\ wpc.i > Len(wpc.entries)
    /\ wpc' = [op |-> "idle"]
    /\ wlast' = [op |-> "replay", ok |-> TRUE, nops |-> Len(wpc.entries),
                 after_crash |-> wpc.after_crash, feasible |-> wpc.feasible,
                 unapplied |-> pending,
                 second |-> wpc.second, fs0 |-> wpc.fs0, id |-> 0]
    /\ UNCHANGED <<wal_entries, wal_storage, wal_next_offset, next_txn_id, bfs,
                   pending, budget>>
    /\ UNCHANGED fsvars
    /\ UNCHANGED concvars
    /\ UNCHANGED wal_history

\* commit is in its append loop with some frames of a transaction of several
\* ops on the WAL storage and others not.
PartlyLogged ==
    /\ wpc.op = "commit" /\ wpc.phase = "append"
    /\ Len(wpc.ops) > 1
    /\ 1 < wpc.i /\ wpc.i <= Len(wpc.ops)

\* The process dies: the manager's memory is lost, the WAL storage and the
\* bottom file system stay; the next manager starts with a replay.
WalCrash ==
    /\ wpc.op # "mounting"
    /\ budget.crashes > 0
    /\ budget' = [budget EXCEPT !.crashes = @ - 1]
    /\ wal_entries' = <<>>
    /\ wal_next_offset' = 0
    /\ next_txn_id' = 1
    /\ wpc' = [op |-> "mounting", feasible |-> apply_all(bfs, pending).ok]
    /\ wlast' = WRet("crash", TRUE, 0)
    /\ wal_history' = [wal_history EXCEPT
                          !.interrupted = IF PartlyLogged
                                          THEN [id |-> wpc.id, nops |-> Len(wpc.ops)]
                                          ELSE NoTxn,
                          !.replayed = 0]
    /\ UNCHANGED <<wal_storage, bfs, pending>>
    /\ UNCHANGED fsvars
    /\ UNCHANGED concvars

\* ------------------------------------------------------ specifications
\* The manager before any call, on the empty bottom file system.
WalQuiet == WalInit /\ bfs = BfsEmpty

\* The freshly mounted file system.
Init == FsInit /\ WalQuiet

Next ==
    \/ Crash
    \/ \E parent \in Inos, name \in Names : Create(parent, name)
    \/ CreateAddDentry
    \/ \E parent \in Inos, name \in Names : Mkdir(parent, name)
    \/ MkdirAddDentry
    \/ \E parent \in Inos, name \in Names : Lookup(parent, name)
    \/ \E parent \in Inos, name \in Names : Unlink(parent, name)
    \/ UnlinkInode
    \/ \E parent \in Inos, name \in Names : Rmdir(parent, name)
    \/ RmdirInode
    \/ \E parent \in Inos, old_name \in Names, new_parent \in Inos,
          new_name \in Names :
          RenameTo(parent, old_name, new_parent, new_name)
    \/ RenameDelete

Spec == Init /\ [][Next]_vars

\* The file system after mount and create(root, "a"): the file is inode 2.
FILE_INO == next_ino([i \in {ROOT_INO} |-> 0])

DataInit ==
    /\ inodes = allocate_inode(
                    [i \in {ROOT_INO} |-> InodeMetadata(ROOT_INO, 0, ROOT_MODE, 2, <<>>)],
                    S_IFREG + FILE_PERM)
    /\ dirs = add_dentry([i \in {ROOT_INO} |-> [n \in {".", ".."} |-> ROOT_INO]],
                         ROOT_INO, "a", FILE_INO)
    /\ disk = [p \in db_reserved_size..(DevEnd - 1) |-> 0]
    /\ next_append_pos = db_reserved_size
    /\ handles = {ROOT_INO, FILE_INO}
    /\ pc = [op |-> "idle"]
    /\ last = Ret("create", ROOT_INO, [name |-> "a"], TRUE, FILE_INO)
    /\ history = [clean |-> TRUE, writes |-> <<>>, crashes |-> 0, appends |-> <<>>]

InitData == DataInit /\ WalQuiet

NextData ==
    \/ Remount
    \/ Crash
    \/ \E lost \in SUBSET Volatile : PowerLoss(lost)
    \/ \E parent \in {ROOT_INO} : Lookup(parent, "a")
    \/ \E ino \in {FILE_INO}, offset \in Offsets, data \in DataSet :
          WriteAt(ino, offset, data)
    \/ \E ino \in {FILE_INO}, offset \in {0}, data \in [1..1 -> {1}] :
          WriteAtDevError(ino, offset, data)
    \/ WriteCommit
    \/ \E ino \in {FILE_INO}, len \in 0..MaxOff : Truncate(ino, len)

SpecData == InitData /\ [][NextData]_vars

InitWal == FsInit /\ WalInit

NextWal ==
    \/ BeginTransaction
    \/ \E op \in WalOps : Record(op)
    \/ Rollback
    \/ Commit
    \/ CommitIntoWalOnly
    \/ \E fail \in BOOLEAN : AppendPrefix(fail)
    \/ \E fail \in BOOLEAN : AppendPayload(fail)
    \/ \E fail \in BOOLEAN : Flush(fail)
    \/ ApplyStep
    \/ \E fail \in BOOLEAN : ClearTxn(fail)
    \/ ReplayRecover
    \/ ReplayApply
    \/ ReplayDone
    \/ WalCrash

SpecWal == InitWal /\ [][NextWal]_vars

\* The data path with a second file that comes and goes, so that a caller
\* can hold a handle whose inode record is gone; no crashes. The writes are
\* of one byte at offset 0, to the first file or through such a handle.
StaleData == [1..1 -> Bytes]

\* DbfsInode::write_at, step 1, through a handle whose inode record is gone.
WriteAtGone(ino, offset, data) ==
    /\ ino \notin DOMAIN inodes
    /\ WriteAt(ino, offset, data)

NextStale ==
    \/ Remount
    \/ \E parent \in {ROOT_INO}, name \in Names : Lookup(parent, name)
    \/ \E parent \in {ROOT_INO}, name \in {"b"} : Create(parent, name)
    \/ CreateAddDentry
    \/ \E parent \in {ROOT_INO}, name \in {"b"} : Unlink(parent, name)
    \/ UnlinkInode
    \/ \E ino \in {FILE_INO}, offset \in {0}, data \in StaleData :
          WriteAt(ino, offset, data)
    \/ \E ino \in Inos \ {ROOT_INO}, offset \in {0}, data \in StaleData :
          WriteAtGone(ino, offset, data)
    \/ WriteCommit

SpecStale == InitData /\ [][NextStale]_vars

\* The operations on directories with the name `.` among their arguments,
\* readdir and set_attr, without crashes.
DirNames == {"a", "."}
AttrModes == {S_IFREG + FILE_PERM, S_IFDIR + DIR_PERM}
AttrSizes == {0}
ReaddirIndexes == 0..MaxReaddir

NextDir ==
    \/ \E parent \in Inos, name \in DirNames : Create(parent, name)
    \/ CreateAddDentry
    \/ \E parent \in Inos, name \in DirNames : Mkdir(parent, name)
    \/ MkdirAddDentry
    \/ \E parent \in Inos, name \in DirNames : Lookup(parent, name)
    \/ \E parent \in Inos, name \in DirNames : Unlink(parent, name)
    \/ UnlinkInode
    \/ \E parent \in Inos, name \in DirNames : Rmdir(parent, name)
    \/ RmdirInode
    \/ \E ino \in Inos, start_index \in ReaddirIndexes : Readdir(ino, start_index)
    \/ \E ino \in Inos, mode \in AttrModes, size \in AttrSizes :
          SetAttr(ino, mode, size)

SpecDir == Init /\ [][NextDir]_vars

\* The data path of one regular file with set_attr: write_at, truncate and
\* set_attr of its size, in one mount.
NextAttr ==
    \/ \E ino \in {FILE_INO}, offset \in Offsets, data \in DataSet :
          WriteAt(ino, offset, data)
    \/ WriteCommit
    \/ \E ino \in {FILE_INO}, len \in 0..MaxOff : Truncate(ino, len)
    \/ \E ino \in {FILE_INO}, mode \in {S_IFREG + FILE_PERM}, size \in 0..MaxOff :
          SetAttr(ino, mode, size)

SpecAttr == InitData /\ [][NextAttr]_vars

\* ------------------------------------------------ concurrent write_at
\* write_at on the file from the caller threads. DbfsInode::write_at takes
\* the engine mutex first and holds it until it returns; pc is the call
\* that holds it.
\* A caller starts write_at(offset, data) and reaches engine.lock().
WriteAtCall(t, offset, data) ==
    /\ tpc[t].op = "idle" /\ trace[t].call = "none"
    /\ tpc' = [tpc EXCEPT ![t] = [op |-> "lock", offset |-> offset, data |-> data]]
    /\ trace' = [trace EXCEPT ![t] =
                    [call |-> "write_at",
                     ops |-> <<[offset |-> offset, data |-> data,
                                concurrent |-> \E u \in Threads \ {t} :
                                                   tpc[u].op # "idle"]>>,
                     events |-> <<>>]]
    /\ UNCHANGED fsvars
    /\ UNCHANGED walvars
    /\ UNCHANGED <<wal_mutex, state_lock, torn>>

\* engine.lock() returns to the caller, who then runs append_data.
WriteAtLock(t) ==
    /\ tpc[t].op = "lock"
    /\ Idle
    /\ next_append_pos + Len(tpc[t].data) <= DevEnd + MaxOverrun
    /\ LET a == append_data(disk, next_append_pos, tpc[t].data)
       IN /\ disk' = a.disk
          /\ next_append_pos' = a.next
          /\ pc' = [op |-> "write_at", ino |-> FILE_INO, offset |-> tpc[t].offset,
                    data |-> tpc[t].data, p_ptr |-> a.ptr, pre |-> Snapshot,
                    thread |-> t]
          /\ history' = [history EXCEPT !.appends =
                             Append(@, [ptr |-> a.ptr, len |-> Len(tpc[t].data)])]
    /\ tpc' = [tpc EXCEPT ![t].op = "commit"]
    /\ UNCHANGED <<inodes, dirs, handles, last>>
    /\ UNCHANGED walvars
    /\ UNCHANGED <<wal_mutex, state_lock, trace, torn>>

\* The batch and its commit; write_at returns and the mutex is released.
WriteAtReturn(t) ==
    /\ tpc[t].op = "commit"
    /\ pc.op = "write_at" /\ pc.thread = t
    /\ LET r == write_index(inodes, pc.ino, pc.offset, pc.data, pc.p_ptr)
       IN /\ inodes' = r.inodes
          /\ trace' = [trace EXCEPT ![t].events =
                          <<<<IF r.ok THEN "ok" ELSE "err", pc.p_ptr>>>>]
    /\ pc' = [op |-> "idle"]
    /\ tpc' = [tpc EXCEPT ![t] = [op |-> "idle"]]
    /\ UNCHANGED <<dirs, disk, next_append_pos, handles, last, history>>
    /\ UNCHANGED walvars
    /\ UNCHANGED <<wal_mutex, state_lock, torn>>

\* truncate before any write_at is called: the size the file has before.
TruncateBefore(len) ==
    /\ \A t \in Threads : trace[t].call = "none"
    /\ last.op # "truncate"
    /\ Truncate(FILE_INO, len)

NextWrites ==
    \/ \E len \in 0..(MaxOff + MaxWriteLen) : TruncateBefore(len)
    \/ \E t \in Threads, offset \in Offsets, data \in DataSet :
          WriteAtCall(t, offset, data)
    \/ \E t \in Threads : WriteAtLock(t)
    \/ \E t \in Threads : WriteAtReturn(t)

SpecWrites == InitData /\ [][NextWrites]_vars

\* ======================================================================
\* The transaction manager under concurrent callers
\* ======================================================================
\* Threads call begin_transaction, commit, commit_into_wal_only and replay
\* on one manager; readers take and release state_lock.read(). A step is
\* what a thread does between two points where another thread can run and
\* see a difference: a lock operation, a storage append, an apply.

\* The transactions the threads record between begin and commit.
ConcTxns ==
    {<<OpCreate(ROOT_INO, "a")>>,
     <<OpCreate(ROOT_INO, "a"), OpDelete(ROOT_INO, "a")>>,
     <<OpMkdir(ROOT_INO, "b"), OpDelete(ROOT_INO, "a")>>}

Ev(e, k) == <<e, k>>

Note(t, e, k) == [trace EXCEPT ![t].events = Append(@, Ev(e, k))]

\* A commit that goes from the flush straight to the applies.
after_flush_skips_lock == "apply"

\* commit, the statement after `wal.flush()?`: state_lock.write().
after_flush == "lock_state"

\* spin::Mutex::lock returns when no thread holds the mutex.
mutex_free(holder) == holder = 0

\* spin::RwLock::write returns when the lock has no writer and no reader.
write_free(lock) == lock.writer = 0 /\ lock.readers = {}

\* spin::RwLock::read returns when the lock has no writer.
read_free(lock) == lock.writer = 0

\* The guards dropped when a call returns: the wal mutex, and the writer
\* side of state_lock if the thread holds it.
Released(t) ==
    /\ wal_mutex' = IF wal_mutex = t THEN 0 ELSE wal_mutex
    /\ state_lock' = IF state_lock.writer = t
                     THEN [state_lock EXCEPT !.writer = 0]
                     ELSE state_lock

ConcFrame(t) == to_vec(WalEntry(tpc[t].id, tpc[t].ops[tpc[t].i]))

\* TransactionManager::begin_transaction: the id under the next_txn_id mutex.
TBegin(t) ==
    /\ tpc[t].op = "idle"
    /\ budget.txns > 0
    /\ budget' = [budget EXCEPT !.txns = @ - 1]
    /\ tpc' = [tpc EXCEPT ![t] = [op |-> "txn", id |-> next_txn_id]]
    /\ next_txn_id' = next_txn_id + 1
    /\ UNCHANGED <<wal_entries, wal_storage, wal_next_offset, bfs, wpc, wlast, pending>>
    /\ UNCHANGED <<wal_mutex, state_lock, trace, torn>>
    /\ UNCHANGED fsvars
    /\ wal_history' = [wal_history EXCEPT !.committed = @ \ {next_txn_id}]

\* A thread calls commit or commit_into_wal_only with the transaction it
\* recorded ops into, and starts to wait for the wal mutex.
TCall(t, call, ops) ==
    /\ tpc[t].op = "txn"
    /\ tpc' = [tpc EXCEPT ![t] = [op |-> call, id |-> tpc[t].id, ops |-> ops,
                                   phase |-> "lock_wal", i |-> 1]]
    /\ trace' = [trace EXCEPT ![t] = [call |-> call, ops |-> ops, events |-> <<>>]]
    /\ UNCHANGED walvars
    /\ UNCHANGED <<wal_mutex, state_lock, torn>>
    /\ UNCHANGED fsvars

\* A thread calls replay.
TReplayCall(t) ==
    /\ tpc[t].op = "idle"
    /\ budget.replays > 0
    /\ budget' = [budget EXCEPT !.replays = @ - 1]
    /\ tpc' = [tpc EXCEPT ![t] = [op |-> "replay", id |-> 0, ops |-> <<>>,
                                   phase |-> "lock_wal", i |-> 1]]
    /\ trace' = [trace EXCEPT ![t] = [call |-> "replay", ops |-> <<>>, events |-> <<>>]]
    /\ UNCHANGED <<wal_entries, wal_storage, wal_next_offset, next_txn_id, bfs, wpc,
                   wlast, pending>>
    /\ UNCHANGED <<wal_mutex, state_lock, torn>>
    /\ UNCHANGED fsvars
    /\ UNCHANGED wal_history

\* self.wal.lock(), the first statement of commit, commit_into_wal_only and
\* replay.
TLockWal(t) ==
    /\ tpc[t].op \in {"commit", "commit_into_wal_only", "replay"}
    /\ tpc[t].phase = "lock_wal"
    /\ mutex_free(wal_mutex)
    /\ wal_mutex' = t
    /\ tpc' = [tpc EXCEPT ![t].phase = IF tpc[t].op = "replay" THEN "recover"
                                        ELSE IF tpc[t].ops = <<>> THEN "flush"
                                        ELSE "append"]
    /\ UNCHANGED walvars
    /\ UNCHANGED <<state_lock, trace, torn>>
    /\ UNCHANGED fsvars

\* wal.append(txn.id, op.clone())? for the next op of the transaction.
TAppend(t) ==
    /\ tpc[t].op \in {"commit", "commit_into_wal_only"}
    /\ tpc[t].phase = "append"
    /\ LET frame == ConcFrame(t)
           with_size == storage_write(wal_storage, wal_next_offset,
                                      to_le_bytes(Len(frame)))
       IN /\ wal_storage' = storage_write(with_size, wal_next_offset + 4, frame)
          /\ wal_next_offset' = wal_next_offset + 4 + Len(frame)
    /\ wal_entries' = Append(wal_entries, WalEntry(tpc[t].id, tpc[t].ops[tpc[t].i]))
    /\ wal_history' = [wal_history EXCEPT !.appended =
                          Append(@, WalEntry(tpc[t].id, tpc[t].ops[tpc[t].i]))]
    /\ tpc' = [tpc EXCEPT ![t].i = IF @ = Len(tpc[t].ops) THEN 1 ELSE @ + 1,
                          ![t].phase = IF tpc[t].i = Len(tpc[t].ops)
                                       THEN "flush" ELSE "append"]
    /\ trace' = Note(t, "append", tpc[t].i)
    /\ UNCHANGED <<next_txn_id, bfs, wpc, wlast, pending, budget>>
    /\ UNCHANGED <<wal_mutex, state_lock, torn>>
    /\ UNCHANGED fsvars

\* wal.flush()?; commit_into_wal_only returns Ok after it.
TFlush(t) ==
    /\ tpc[t].op \in {"commit", "commit_into_wal_only"}
    /\ tpc[t].phase = "flush"
    /\ trace' = Note(t, "flush", 0)
    /\ IF tpc[t].op = "commit"
       THEN /\ tpc' = [tpc EXCEPT ![t].phase = after_flush]
            /\ UNCHANGED <<wal_mutex, state_lock>>
       ELSE /\ tpc' = [tpc EXCEPT ![t] = [op |-> "idle"]]
            /\ Released(t)
    /\ UNCHANGED walvars
    /\ UNCHANGED torn
    /\ UNCHANGED fsvars

\* let _guard = self.state_lock.write();
TLockState(t) ==
    /\ tpc[t].op = "commit"
    /\ tpc[t].phase = "lock_state"
    /\ write_free(state_lock)
    /\ state_lock' = [state_lock EXCEPT !.writer = t]
    /\ tpc' = [tpc EXCEPT ![t].phase = "apply"]
    /\ trace' = Note(t, "lock", 0)
    /\ UNCHANGED walvars
    /\ UNCHANGED <<wal_mutex, torn>>
    /\ UNCHANGED fsvars

\* commit: op.apply()? for the next op; an Err returns from commit and
\* drops both guards.
TApply(t) ==
    /\ tpc[t].op = "commit"
    /\ tpc[t].phase = "apply"
    /\ tpc[t].i <= Len(tpc[t].ops)
    /\ LET r == apply(bfs, tpc[t].ops[tpc[t].i])
       IN IF r.ok
          THEN /\ bfs' = r.fs
               /\ tpc' = [tpc EXCEPT ![t].i = @ + 1]
               /\ trace' = Note(t, "apply", tpc[t].i)
               /\ torn' = IF tpc[t].i < Len(tpc[t].ops)
                          THEN torn \cup {tpc[t].id}
                          ELSE torn \ {tpc[t].id}
               /\ UNCHANGED <<wal_mutex, state_lock>>
          ELSE /\ tpc' = [tpc EXCEPT ![t] = [op |-> "idle"]]
               /\ Released(t)
               /\ UNCHANGED <<bfs, trace, torn>>
    /\ UNCHANGED <<wal_entries, wal_storage, wal_next_offset, next_txn_id, wpc,
                   wlast, pending, budget>>
    /\ UNCHANGED fsvars
    /\ UNCHANGED wal_history

\* commit: wal.clear_txn(txn.id) with the checkpoint it may make, then Ok(())
\* and the drop of both guards.
TClear(t) ==
    /\ tpc[t].op = "commit"
    /\ tpc[t].phase = "apply"
    /\ tpc[t].i > Len(tpc[t].ops)
    /\ wal_entries' = retain_other(wal_entries, tpc[t].id)
    /\ IF wal_entries' = <<>>
       THEN /\ wal_storage' = storage_truncate(wal_storage, 0)
            /\ wal_next_offset' = 0
            /\ wal_history' = Committed(tpc[t].id, TRUE)
       ELSE /\ wal_history' = Committed(tpc[t].id, FALSE)
            /\ UNCHANGED <<wal_storage, wal_next_offset>>
    /\ tpc' = [tpc EXCEPT ![t] = [op |-> "idle"]]
    /\ trace' = Note(t, "clear", 0)
    /\ Released(t)
    /\ UNCHANGED <<next_txn_id, bfs, wpc, wlast, pending, budget>>
    /\ UNCHANGED torn
    /\ UNCHANGED fsvars

\* replay: wal.recover()?
TRecover(t) ==
    /\ tpc[t].op = "replay"
    /\ tpc[t].phase = "recover"
    /\ LET r == recover(wal_storage)
       IN /\ wal_next_offset' = r.next_offset
          /\ tpc' = [tpc EXCEPT ![t].ops = [k \in DOMAIN r.entries |->
                                                r.entries[k].operation],
                                ![t].phase = "apply"]
    /\ UNCHANGED <<wal_entries, wal_storage, next_txn_id, bfs, wpc, wlast, pending,
                   budget>>
    /\ UNCHANGED <<wal_mutex, state_lock, trace, torn>>
    /\ UNCHANGED fsvars
    /\ UNCHANGED wal_history

\* replay: entry.operation.apply()? for the next recovered entry, or, at the
\* end of the loop, Ok(()); the wal guard is dropped on return.
TReplayApply(t) ==
    /\ tpc[t].op = "replay"
    /\ tpc[t].phase = "apply"
    /\ IF tpc[t].i <= Len(tpc[t].ops)
       THEN LET r == apply(bfs, tpc[t].ops[tpc[t].i])
            IN IF r.ok
               THEN /\ bfs' = r.fs
                    /\ tpc' = [tpc EXCEPT ![t].i = @ + 1]
                    /\ UNCHANGED <<wal_mutex, state_lock>>
               ELSE /\ tpc' = [tpc EXCEPT ![t] = [op |-> "idle"]]
                    /\ Released(t)
                    /\ UNCHANGED bfs
       ELSE /\ tpc' = [tpc EXCEPT ![t] = [op |-> "idle"]]
            /\ Released(t)
            /\ UNCHANGED bfs
    /\ UNCHANGED <<wal_entries, wal_storage, wal_next_offset, next_txn_id, wpc,
                   wlast, pending, budget>>
    /\ UNCHANGED <<trace, torn>>
    /\ UNCHANGED fsvars
    /\ UNCHANGED wal_history

\* A reader: let guard = state_lock.read();
ReadLock(r) ==
    /\ r \notin state_lock.readers
    /\ read_free(state_lock)
    /\ state_lock' = [state_lock EXCEPT !.readers = @ \cup {r}]
    /\ UNCHANGED walvars
    /\ UNCHANGED <<tpc, wal_mutex, trace, torn>>
    /\ UNCHANGED fsvars

\* The reader is done: drop(guard).
ReadUnlock(r) ==
    /\ r \in state_lock.readers
    /\ state_lock' = [state_lock EXCEPT !.readers = @ \ {r}]
    /\ UNCHANGED walvars
    /\ UNCHANGED <<tpc, wal_mutex, trace, torn>>
    /\ UNCHANGED fsvars

NextConc ==
    \/ \E t \in Threads : TBegin(t)
    \/ \E t \in Threads, call \in {"commit", "commit_into_wal_only"},
          ops \in ConcTxns : TCall(t, call, ops)
    \/ \E t \in Threads : TReplayCall(t)
    \/ \E t \in Threads : TLockWal(t)
    \/ \E t \in Threads : TAppend(t)
    \/ \E t \in Threads : TFlush(t)
    \/ \E t \in Threads : TLockState(t)
    \/ \E t \in Threads : TApply(t)
    \/ \E t \in Threads : TClear(t)
    \/ \E t \in Threads : TRecover(t)
    \/ \E t \in Threads : TReplayApply(t)
    \/ \E r \in Readers : ReadLock(r)
    \/ \E r \in Readers : ReadUnlock(r)

SpecConc == InitWal /\ [][NextConc]_vars

\* The scheduling: a thread in a call takes its next step when it can, a
\* thread that spins on a lock gets it if the lock is free again and again,
\* and a reader that holds the read side lets go of it.
SpecConcFair ==
    /\ SpecConc
    /\ \A t \in Threads :
          /\ SF_vars(TLockWal(t))
          /\ SF_vars(TLockState(t))
          /\ WF_vars(TAppend(t) \/ TFlush(t) \/ TApply(t) \/ TClear(t)
                     \/ TRecover(t) \/ TReplayApply(t))
    /\ \A r \in Readers : WF_vars(ReadUnlock(r))

\* ======================================================================
\* Properties
\* ======================================================================

\* The reads a caller can ask for: every offset and buffer length that
\* touches the bytes a file can hold in this model.
ReadOffsets == 0..(MaxOff + MaxWriteLen - 1)
ReadLens == 1..(MaxOff + MaxWriteLen)

\* DbfsInode::read_at on a zeroed buffer of n bytes.
read_at(ino_tab, d, ino, offset, n) == read_file(ino_tab, d, ino, offset, Zeros(n))

\* C1: write-read round trip. After write_at(ino, o, b) on an existing
\* regular file returns success, read_at(ino, o, buf) with len(buf) = len(b)
\* returns len(b) and buf equals b.
C1_WriteReadRoundTrip ==
    (Idle /\ last.op = "write_at" /\ last.ok) =>
        LET r == read_at(inodes, disk, last.ino, last.arg.offset, Len(last.arg.data))
        IN r.ok /\ r.n = Len(last.arg.data) /\ r.buf = last.arg.data

\* A write_at has returned success on a file that an earlier write reached.
C1_Witness ==
    /\ Idle /\ last.op = "write_at" /\ last.ok
    /\ Len(history.writes) >= 2

\* C2: newest wins on overlap. After any sequence of successful write_at
\* calls on one inode, read_at returns, for every byte position of the
\* requested range that some write covers, the byte of the latest write
\* covering it.
C2_NewestWins ==
    (Idle /\ history.clean) =>
        \A o \in ReadOffsets, n \in ReadLens, p \in ReadOffsets :
            (p >= o /\ p < o + n /\ Covering(FILE_INO, p) # {}) =>
                LET w == history.writes[SetMax(Covering(FILE_INO, p))]
                    r == read_at(inodes, disk, FILE_INO, o, n)
                IN /\ r.ok
                   /\ p - o < r.n
                   /\ r.buf[p - o + 1] = w.data[p - w.offset + 1]

\* Two successful writes of one mount cover a common byte position.
C2_Witness ==
    /\ Idle /\ history.clean
    /\ \E p \in ReadOffsets : Cardinality(Covering(FILE_INO, p)) >= 2

\* Two byte ranges [a, a+alen) and [b, b+blen) share a byte.
Overlaps(a, alen, b, blen) == a < b + blen /\ b < a + alen

\* C3: crash before the KV commit of a write. If write_at crashes after
\* append_data and before the commit, then after the remount the inode's
\* size and extent vector are the pre-write ones, read_at returns what it
\* returned before the write, and no inode references the appended payload.
C3_CrashBeforeCommit ==
    (Idle /\ last.op = "crash" /\ last.arg.op = "write_at") =>
        LET w == last.arg
        IN /\ w.ino \in DOMAIN inodes
           /\ inodes[w.ino].size = w.pre.inodes[w.ino].size
           /\ inodes[w.ino].extents = w.pre.inodes[w.ino].extents
           /\ \A o \in ReadOffsets, n \in ReadLens :
                 read_at(inodes, disk, w.ino, o, n)
                     = read_at(w.pre.inodes, w.pre.disk, w.ino, o, n)
           /\ \A i \in DOMAIN inodes : \A k \in DOMAIN inodes[i].extents :
                 ~Overlaps(w.p_ptr, Len(w.data),
                           inodes[i].extents[k].physical_ptr, inodes[i].extents[k].len)

\* A write_at on a file with committed data has crashed between its append
\* and its commit.
C3_Witness ==
    /\ Idle /\ last.op = "crash" /\ last.arg.op = "write_at"
    /\ last.arg.ino \in DOMAIN inodes
    /\ inodes[last.arg.ino].extents # <<>>

\* C4: the data log stays append-only across mounts. No append_data writes
\* into a log range referenced by a committed extent: right after the
\* append of a write_at, the appended range shares no byte with the range
\* of any extent of any inode.
C4_AppendOnlyAcrossMounts ==
    pc.op = "write_at" =>
        \A i \in DOMAIN inodes : \A k \in DOMAIN inodes[i].extents :
            ~Overlaps(pc.p_ptr, Len(pc.data),
                      inodes[i].extents[k].physical_ptr, inodes[i].extents[k].len)

\* A write_at has appended on a mount later than the one that committed the
\* file's extents.
C4_Witness ==
    /\ pc.op = "write_at" /\ ~history.clean /\ history.writes = <<>>
    /\ pc.ino \in DOMAIN inodes /\ inodes[pc.ino].extents # <<>>

\* C5: atomic inode birth. After a crash at any point of create or mkdir
\* and the remount, the new inode record exists if and only if its parent
\* directory entry exists.
C5_AtomicInodeBirth ==
    (Idle /\ last.op = "crash" /\ last.arg.op \in {"create", "mkdir"}) =>
        (last.arg.new_ino \in DOMAIN inodes
            <=> lookup_dentry(dirs, last.arg.ino, last.arg.name) = last.arg.new_ino)

\* A create or mkdir has crashed after its first commit.
C5_Witness ==
    Idle /\ last.op = "crash" /\ last.arg.op \in {"create", "mkdir"}

\* DbfsInode::unlink from start to end on the KV state kv.
unlink(kv, parent, name) ==
    LET child_ino == lookup_dentry(kv.dirs, parent, name)
    IN IF child_ino = 0 THEN kv
       ELSE LET d == delete_dentry(kv.dirs, parent, name).dirs
                r == unlink_inode(kv.inodes, d, child_ino)
            IN [inodes |-> r.inodes, dirs |-> r.dirs]

\* DbfsInode::rename_to from start to end on the KV state kv.
rename_to(kv, parent, old_name, new_parent, new_name) ==
    LET ino == lookup_dentry(kv.dirs, parent, old_name)
    IN IF ino = 0 THEN kv
       ELSE [inodes |-> kv.inodes,
             dirs |-> delete_dentry(add_dentry(kv.dirs, new_parent, new_name, ino),
                                    parent, old_name).dirs]

\* C6: crash atomicity of unlink and rename. After a crash at any point of
\* unlink or rename_to and the remount, the inode records and directory
\* entries are those of before the operation or those of after it.
C6_CrashAtomicUnlinkRename ==
    (Idle /\ last.op = "crash" /\ last.arg.op \in {"unlink", "rename_to"}) =>
        LET c == last.arg
            now == [inodes |-> inodes, dirs |-> dirs]
            pre == [inodes |-> c.pre.inodes, dirs |-> c.pre.dirs]
            post == IF c.op = "unlink"
                    THEN unlink(pre, c.ino, c.name)
                    ELSE rename_to(pre, c.ino, c.arg.old_name, c.arg.new_parent,
                                   c.arg.new_name)
        IN now = pre \/ now = post

\* An unlink or rename_to has crashed between its commits.
C6_Witness ==
    Idle /\ last.op = "crash" /\ last.arg.op \in {"unlink", "rename_to"}

\* C7: recovery applies logged work. When replay has run on the mount after
\* a crash, every operation that was appended and flushed to the WAL and not
\* applied before the crash has been applied, in WAL write order (the
\* operations being ones the file system of the crash accepts in that order).
C7_RecoveryAppliesLoggedWork ==
    (wlast.op = "replay" /\ wlast.after_crash /\ wlast.feasible) =>
        wlast.unapplied = <<>>

\* Replay has run after a crash that left flushed operations unapplied, and
\* applied them all.
C7_Witness ==
    /\ WIdle /\ wlast.op = "replay" /\ wlast.after_crash /\ wlast.feasible
    /\ wlast.ok /\ wlast.nops >= 1 /\ wlast.unapplied = <<>>

\* C8: replay idempotence. Running replay twice in a row leaves the file
\* system as running it once left it.
C8_ReplayIdempotent ==
    (WIdle /\ wlast.op = "replay" /\ wlast.second) => bfs = wlast.fs0

\* Replay has run twice in a row over a WAL that holds entries.
C8_Witness ==
    WIdle /\ wlast.op = "replay" /\ wlast.second /\ wlast.nops >= 1

\* C9: after commit of a transaction with at least one recorded op returns
\* success, the WAL backing storage is non-empty.
C9_WalNonEmptyAfterCommit ==
    (wlast.op = "commit" /\ wlast.ok /\ wlast.nops >= 1) => Len(wal_storage) > 0

\* A commit of a transaction with two recorded ops has returned success.
C9_Witness ==
    WIdle /\ wlast.op = "commit" /\ wlast.ok /\ wlast.nops = MaxTxnOps

RECURSIVE IsSubSeq(_, _)
IsSubSeq(s, t) ==
    IF s = <<>> THEN TRUE
    ELSE IF t = <<>> THEN FALSE
    ELSE IF Head(s) = Head(t) THEN IsSubSeq(Tail(s), Tail(t))
    ELSE IsSubSeq(s, Tail(t))

\* The step that is commit's call of clear_txn(wpc.id).
ClearStep ==
    /\ wpc.op = "commit" /\ wpc.phase = "apply" /\ wpc.i > Len(wpc.ops)
    /\ wpc'.op = "idle"

\* The step leaves in memory exactly the entries of the other transactions,
\* in their order.
RemovesExactly ==
    /\ \A k \in DOMAIN wal_entries' : wal_entries'[k].txn_id # wpc.id
    /\ Len(wal_entries') =
           Cardinality({k \in DOMAIN wal_entries : wal_entries[k].txn_id # wpc.id})
    /\ IsSubSeq(wal_entries', wal_entries)

C11_LookupCreateUnlinkDuality ==
    /\ (Idle /\ last.op = "create" /\ last.ok) =>
           lookup_dentry(dirs, last.ino, last.arg.name) = last.ret
    /\ (Idle /\ last.op = "unlink" /\ last.ok) =>
           lookup_dentry(dirs, last.ino, last.arg.name) = 0

\* A create has returned its inode in a directory other than the root.
C11_Witness ==
    /\ Idle /\ last.op = "create" /\ last.ok /\ last.ino # ROOT_INO
    /\ last.ret \in DOMAIN inodes

\* The step on which a create or mkdir returns.
BirthReturns ==
    /\ pc.op \in {"create", "mkdir"}
    /\ pc'.op = "idle"
    /\ last'.op = pc.op

\* C12: create(p, n) and mkdir(p, n) on a name n already present in p
\* return EExist and leave the existing directory entry, the existing inode
\* and the set of inode records unchanged.
C12_ExistingNameRejected ==
    [][(BirthReturns /\ lookup_dentry(pc.pre.dirs, pc.ino, pc.name) # 0) =>
          /\ ~last'.ok
          /\ inodes' = pc.pre.inodes
          /\ dirs' = pc.pre.dirs]_vars

\* A create or mkdir has returned success and an inode other than the new
\* one is named by no directory entry.
C12_Witness ==
    /\ Idle /\ last.op \in {"create", "mkdir"} /\ last.ok /\ history.crashes = 0
    /\ \E i \in DOMAIN inodes :
          /\ i # last.ret
          /\ \A d \in DOMAIN dirs : \A n \in DOMAIN dirs[d] : dirs[d][n] # i

\* What the rmdir guard promises of the step that starts rmdir(parent, name),
\* the entries named in ignored not counting as content of the directory.
RmdirExpected(parent, name, ignored) ==
    LET child == lookup_dentry(dirs, parent, name)
        refused(err) ==
            /\ last'.op = "rmdir" /\ ~last'.ok /\ last'.ret = err
            /\ pc'.op = "idle"
            /\ inodes' = inodes /\ dirs' = dirs
    IN /\ child = 0 => refused("NoEntry")
       /\ (child \in DOMAIN inodes /\ ~IsDir(inodes[child].mode)) => refused("NotDir")
       /\ (child \in DOMAIN inodes /\ IsDir(inodes[child].mode)) =>
             IF child \in DOMAIN dirs /\ DOMAIN dirs[child] \ ignored # {}
             THEN refused("NotEmpty")
             ELSE pc'.op = "rmdir"

\* What it promises of the step that ends a rmdir that was not refused.
RmdirRemoves ==
    /\ last'.op = "rmdir" /\ last'.ok
    /\ lookup_dentry(dirs', pc.ino, pc.name) = 0
    /\ pc.child_ino \notin DOMAIN inodes'

RECURSIVE readdir_names(_, _, _, _)
readdir_names(ino_tab, dir_tab, ino, start_index) ==
    LET r == readdir(ino_tab, dir_tab, ino, start_index)
    IN IF r.err # "Ok" \/ r.name = "None" THEN <<>>
       ELSE <<r.name>> \o readdir_names(ino_tab, dir_tab, ino, start_index + 1)

\* The names of the children of directory d: its entries but `.` and `..`.
children(dir_tab, d) ==
    IF d \in DOMAIN dir_tab THEN DOMAIN dir_tab[d] \ {".", ".."} ELSE {}

\* C14: readdir completeness. For every directory, the names returned by
\* readdir(dir, i) for i = 0, 1, ... until None are exactly the names of the
\* directory's children plus `.` and `..`, each returned once.
C14_ReaddirComplete ==
    Idle =>
        \A d \in DOMAIN inodes :
            IsDir(inodes[d].mode) =>
                LET ns == readdir_names(inodes, dirs, d, 0)
                    expected == children(dirs, d) \cup {".", ".."}
                IN /\ {ns[k] : k \in DOMAIN ns} = expected
                   /\ Len(ns) = Cardinality(expected)

\* A mkdir has returned a new directory.
C14_Witness ==
    /\ Idle /\ last.op = "mkdir" /\ last.ok
    /\ last.ret \in DOMAIN inodes /\ IsDir(inodes[last.ret].mode)

\* C15: truncate to a smaller size. After truncate(ino, n) with n at most
\* the current size succeeds, get_attr(ino).size is n and read_at(ino, 0, buf)
\* with len(buf) at least n returns n and the first n bytes the file had
\* before the truncate (the file being one whose every byte was written).
C15_TruncateSmaller ==
    (Idle /\ last.op = "truncate" /\ last.ok /\ last.arg.shrinks) =>
        /\ inodes[last.ino].size = last.arg.len
        /\ \A n \in last.arg.len..(MaxOff + MaxWriteLen) :
              LET r == read_at(inodes, disk, last.ino, 0, n)
              IN /\ r.ok
                 /\ r.n = last.arg.len
                 /\ SubSeq(r.buf, 1, last.arg.len) = last.arg.before

\* A truncate of a written file to a size above 0 has kept an extent.
C15_Witness ==
    /\ Idle /\ last.op = "truncate" /\ last.ok /\ last.arg.shrinks
    /\ 0 < last.arg.len
    /\ inodes[last.ino].extents # <<>>

\* C16: root liveness. In every state reached by create, mkdir, unlink,
\* rmdir and set_attr with any names, `.` included, inode 1 exists in the
\* inodes bucket, its mode says directory and its nlink is at least 2.
C16_RootLiveness ==
    Idle =>
        /\ ROOT_INO \in DOMAIN inodes
        /\ IsDir(inodes[ROOT_INO].mode)
        /\ inodes[ROOT_INO].nlink >= 2

\* An unlink in the root or a set_attr on the root has returned success.
C16_Witness ==
    /\ Idle /\ last.ok /\ last.ino = ROOT_INO
    /\ last.op \in {"unlink", "set_attr"}

\* The directory entries, over all directories, whose value is inode x.
entries_naming(dir_tab, x) ==
    {dn \in UNION {{<<d, n>> : n \in DOMAIN dir_tab[d]} : d \in DOMAIN dir_tab} :
        dir_tab[dn[1]][dn[2]] = x}

\* C17: link accounting. In every state reached by create, mkdir, unlink,
\* rmdir and rename, without a crash, every inode record's nlink is the
\* number of directory entries whose value is that inode, and no inode
\* record is named by zero directory entries.
C17_LinkAccounting ==
    (Idle /\ history.crashes = 0) =>
        \A x \in DOMAIN inodes :
            /\ inodes[x].nlink = Cardinality(entries_naming(dirs, x))
            /\ entries_naming(dirs, x) # {}

\* Without a crash, a rename_to or an unlink has returned success and inode
\* records other than the root's remain.
C17_Witness ==
    /\ Idle /\ history.crashes = 0
    /\ last.op \in {"rename_to", "unlink"} /\ last.ok
    /\ DOMAIN inodes # {ROOT_INO}

\* C18: no dangling directory entries. In every state between operations,
\* the states after a crash and remount included, every directory entry's
\* child inode number is a key of the inodes bucket.
C18_NoDanglingEntries ==
    Idle =>
        \A d \in DOMAIN dirs : \A n \in DOMAIN dirs[d] :
            dirs[d][n] \in DOMAIN inodes

\* After a crash and the remount, an unlink has deleted the last inode
\* record but the root's.
C18_Witness ==
    /\ Idle /\ history.crashes > 0
    /\ last.op = "unlink" /\ last.ok
    /\ DOMAIN inodes = {ROOT_INO}

\* The step on which a write_at on a handle whose inode has no record
\* returns.
StaleWriteReturns ==
    /\ pc.op = "write_at" /\ pc.ino \notin DOMAIN inodes
    /\ pc'.op = "idle" /\ last'.op = "write_at"

\* C19: write_at on an inode number that has no record in the inodes bucket
\* fails with an error and leaves every inode record and every directory
\* entry unchanged; no later read_at or get_attr of any inode sees the
\* failed write.
C19_WriteWithoutRecord ==
    [][StaleWriteReturns =>
          /\ ~last'.ok
          /\ inodes' = pc.pre.inodes
          /\ dirs' = pc.pre.dirs
          /\ \A i \in DOMAIN inodes', o \in ReadOffsets, n \in ReadLens :
                read_at(inodes', disk', i, o, n)
                    = read_at(pc.pre.inodes, pc.pre.disk, i, o, n)]_vars

\* A write_at on a handle whose inode record is gone has failed, on a file
\* system where another file holds data.
C19_Witness ==
    /\ Idle /\ last.op = "write_at" /\ ~last.ok
    /\ last.ino \notin DOMAIN inodes
    /\ \E i \in DOMAIN inodes : inodes[i].extents # <<>>

\* ------------------------------------------------------------------ C20
\* The entries of one transaction among the entries of a log.
entries_of(entries, txn_id) == SelectSeq(entries, LAMBDA e : e.txn_id = txn_id)

CommitFailed == WIdle /\ wlast.op = "commit" /\ ~wlast.ok

\* C20: a failed commit has no effect. When TransactionManager::commit has
\* returned an error, the bottom file system is as it was when the call
\* started, and no entry of the transaction is left in the log, neither in
\* its memory nor in what a recover reads from its storage.
C20_FailedCommitNoEffect ==
    CommitFailed =>
        /\ bfs = wlast.fs0
        /\ entries_of(wal_entries, wlast.id) = <<>>
        /\ entries_of(recover(wal_storage).entries, wlast.id) = <<>>

\* A commit of two operations has failed, after the first was applied.
C20_Witness ==
    /\ CommitFailed
    /\ wlast.nops = MaxTxnOps
    /\ bfs # wlast.fs0

\* ------------------------------------------------------------------ C21
\* The buffers a caller hands to read_at: n bytes, zeroed or holding what an
\* earlier use left in them.
CallerBufs(n) == {Zeros(n), [i \in 1..n |-> 255]}

\* Byte position p of the file lies within one of the inode's extents.
Mapped(ino_tab, ino, p) ==
    \E k \in DOMAIN ino_tab[ino].extents :
        LET extent == ino_tab[ino].extents[k]
        IN extent.logical_off <= p /\ p < extent.logical_off + extent.len

\* C21: holes read as zeros. For every inode and every offset o below its
\* size, read_at(ino, o, buf) returns min(len(buf), size - o) and every
\* returned byte position that no extent maps is 0; for o at or past the
\* size it returns 0.
C21_HolesReadAsZeros ==
    Idle =>
        \A ino \in DOMAIN inodes, o \in ReadOffsets, n \in ReadLens :
            \A buf \in CallerBufs(n) :
                LET r == read_file(inodes, disk, ino, o, buf)
                    size == inodes[ino].size
                IN /\ r.ok
                   /\ IF o >= size THEN r.n = 0
                      ELSE /\ r.n = Min(n, size - o)
                           /\ \A k \in 1..Min(n, size - o) :
                                 ~Mapped(inodes, ino, o + k - 1) => r.buf[k] = 0

\* A file has a byte position below its size that no extent maps, before the
\* end of its last extent.
C21_Witness ==
    /\ Idle
    /\ FILE_INO \in DOMAIN inodes
    /\ \E p \in ReadOffsets, q \in ReadOffsets :
          /\ p < q /\ q < inodes[FILE_INO].size
          /\ ~Mapped(inodes, FILE_INO, p)
          /\ Mapped(inodes, FILE_INO, q)

\* ------------------------------------------------------------------ C22
IsPrefix(s, t) == Len(s) <= Len(t) /\ s = SubSeq(t, 1, Len(s))

\* The steps of a commit of ops in the order the protocol names them.
commit_order(ops) ==
    [k \in DOMAIN ops |-> Ev("append", k)]
        \o <<Ev("flush", 0), Ev("lock", 0)>>
        \o [k \in DOMAIN ops |-> Ev("apply", k)]
        \o <<Ev("clear", 0)>>

\* C22: commit protocol ordering. In commit, all ops of the transaction are
\* appended to the WAL, then the flush returns, then the writer side of
\* state_lock is acquired, then the ops are applied in recorded order, then
\* the entries are cleared: what a commit has done so far is always a
\* beginning of that sequence, and it applies only as the writer.
C22_CommitOrdering ==
    \A t \in Threads :
        /\ trace[t].call = "commit" =>
              IsPrefix(trace[t].events, commit_order(trace[t].ops))
        /\ (tpc[t].op = "commit" /\ tpc[t].phase = "apply") =>
              state_lock.writer = t

\* A commit of two ops has gone through all its steps and returned.
C22_Witness ==
    \E t \in Threads :
        /\ tpc[t].op = "idle" /\ trace[t].call = "commit"
        /\ Len(trace[t].ops) = 2
        /\ trace[t].events = commit_order(trace[t].ops)

\* ------------------------------------------------------------------ C23
\* A commit is between the apply of its first op and of its last.
ApplyingInPart(t) ==
    /\ tpc[t].op = "commit" /\ tpc[t].phase = "apply"
    /\ 1 < tpc[t].i /\ tpc[t].i <= Len(tpc[t].ops)

\* While a reader holds the read side, no commit is in the middle of its
\* applies.
ReadersExcluded ==
    state_lock.readers # {} => \A t \in Threads : ~ApplyingInPart(t)

\* C23: reader atomicity. A reader that holds state_lock.read() never
\* observes a file system in which some but not all ops of a transaction
\* applied by commit have taken effect.
C23_ReaderAtomicity ==
    /\ ReadersExcluded
    /\ state_lock.readers # {} => torn = {}

\* A reader holds the read side after a commit of two ops has applied both.
C23_Witness ==
    /\ state_lock.readers # {}
    /\ \E t \in Threads :
          /\ trace[t].call = "commit" /\ Len(trace[t].ops) = 2
          /\ trace[t].events = commit_order(trace[t].ops)

\* ------------------------------------------------------------------ C24
InManagerCall(t) == tpc[t].op \in {"commit", "commit_into_wal_only", "replay"}

\* The thread is inside the part of its call that the wal mutex guards.
InSequence(t) == InManagerCall(t) /\ tpc[t].phase # "lock_wal"

\* The sequences of two calls never interleave.
Serialised == \A t, u \in Threads : (InSequence(t) /\ InSequence(u)) => t = u

\* The thread's next step does not wait, or the lock it waits for is free.
CanStep(t) ==
    /\ InManagerCall(t)
    /\ tpc[t].phase = "lock_wal" => mutex_free(wal_mutex)
    /\ tpc[t].phase = "lock_state" => write_free(state_lock)

\* No deadlock: while a thread is in a call, some thread in a call can take
\* its next step, or a reader holds the read side and can let go of it.
CanProceed ==
    (\E t \in Threads : InManagerCall(t)) =>
        \/ \E t \in Threads : CanStep(t)
        \/ state_lock.readers # {}

\* Every call returns.
EveryCallReturns == \A t \in Threads : InManagerCall(t) ~> ~InManagerCall(t)

\* C24: concurrent use of the manager is deadlock-free and serialised. For
\* threads calling begin_transaction, commit, commit_into_wal_only and
\* replay, and readers taking and releasing state_lock.read(), every call
\* eventually returns under fair scheduling, and the append-flush-apply-clear
\* sequences of two commits never interleave.
C24_DeadlockFreeSerialised ==
    /\ [](Serialised /\ CanProceed)
    /\ EveryCallReturns

\* A commit waits for the writer side of state_lock while both readers hold
\* the read side and the other thread waits for the wal mutex.
C24_Witness ==
    /\ state_lock.readers = Readers
    /\ \E t, u \in Threads :
          /\ tpc[t].op = "commit" /\ tpc[t].phase = "lock_state"
          /\ InManagerCall(u) /\ tpc[u].phase = "lock_wal"

\* ------------------------------------------------------------------ C25
\* The scan the stop rule describes: frames are read from offset 0 and the
\* scan ends at the first frame whose length prefix is 0 or over the bound,
\* whose bytes cannot be read, or whose payload does not deserialize.
RECURSIVE stop_at_first_bad(_, _, _)
stop_at_first_bad(sto, offset, recovered) ==
    IF ~storage_read_ok(sto, offset, 4) THEN recovered
    ELSE LET size_buf == storage_read(sto, offset, 4)
         IN IF over_sanity_bound(size_buf) \/ from_le_bytes(size_buf) = 0
            THEN recovered
            ELSE LET size == from_le_bytes(size_buf)
                 IN IF ~storage_read_ok(sto, offset + 4, size) THEN recovered
                    ELSE LET d == from_slice(storage_read(sto, offset + 4, size))
                         IN IF ~d.ok THEN recovered
                            ELSE stop_at_first_bad(sto, offset + 4 + size,
                                                   Append(recovered, d.entry))

\* C25: the recovery scan's stop rule. recover reads frames from offset 0
\* and stops at the first frame whose length prefix is 0 or greater than the
\* bound, whose bytes cannot be read, or whose payload fails to deserialize:
\* it returns no entry stored after such a frame.
C25_RecoverStopRule ==
    recover(wal_storage).entries = stop_at_first_bad(wal_storage, 0, <<>>)

\* The storage holds a frame, after its first, that the scan does not reach.
C25_Witness ==
    /\ Len(recover(wal_storage).entries) >= 1
    /\ recover(wal_storage).next_offset < Len(wal_storage)

\* ------------------------------------------------------------------ C26
\* The entries applied in order, one that fails being skipped.
RECURSIVE apply_skipping(_, _)
apply_skipping(fs, entries) ==
    IF entries = <<>> THEN fs
    ELSE apply_skipping(apply(fs, Head(entries).operation).fs, Tail(entries))

\* C26: replay tolerates failing entries. When the apply of a recovered
\* entry fails during replay, the entry is skipped and every later recovered
\* entry is still applied: replay does not abort, and it leaves the file
\* system that applying the recovered entries, the failing ones skipped, gives.
C26_ReplaySkipsFailures ==
    (WIdle /\ wlast.op = "replay") =>
        /\ wlast.ok
        /\ bfs = apply_skipping(wlast.fs0, recover(wal_storage).entries)

\* A replay has met an entry whose apply failed before the last of at least
\* two recovered entries.
C26_Witness ==
    /\ WIdle /\ wlast.op = "replay" /\ ~wlast.ok
    /\ wlast.nops >= 2
    /\ bfs # apply_skipping(wlast.fs0, recover(wal_storage).entries)

\* ------------------------------------------------------------------ C27
\* C27: recovery ends with a checkpoint. After replay returns success the WAL
\* backing storage has length 0 and the append cursor is 0, so that another
\* replay recovers no entries.
C27_ReplayCheckpoints ==
    (WIdle /\ wlast.op = "replay" /\ wlast.ok) =>
        /\ Len(wal_storage) = 0
        /\ wal_next_offset = 0
        /\ recover(wal_storage).entries = <<>>

\* A replay that recovered at least one entry has returned success.
C27_Witness ==
    WIdle /\ wlast.op = "replay" /\ wlast.ok /\ wlast.nops >= 1 /\ ~wlast.second

\* ------------------------------------------------------------------ C28
\* The end of the last of the frames of entries laid out from offset 0.
RECURSIVE frames_end(_)
frames_end(entries) ==
    IF entries = <<>> THEN 0
    ELSE 4 + Len(to_vec(Head(entries))) + frames_end(Tail(entries))

\* No append is between its two storage writes.
NoAppendInHalf == ~(InCall /\ wpc.phase = "append" /\ wpc.half)

\* C28: WAL append/recover round trip. For the entries e1..en appended
\* successfully since the last checkpoint, recover on the same storage
\* returns exactly e1..en in append order, each with its txn_id and
\* operation, and sets the append cursor to the end of the last frame.
C28_AppendRecoverRoundTrip ==
    (NoAppendInHalf /\ wal_history.appended # <<>>) =>
        LET r == recover(wal_storage)
        IN /\ r.entries = wal_history.appended
           /\ r.next_offset = frames_end(wal_history.appended)

\* Entries of two transactions have been appended since the last checkpoint.
C28_Witness ==
    /\ NoAppendInHalf
    /\ \E j, k \in DOMAIN wal_history.appended :
          wal_history.appended[j].txn_id # wal_history.appended[k].txn_id

\* ------------------------------------------------------------------ C29
\* The replay that follows a crash which interrupted the logging of a
\* transaction of several ops has returned.
ReplayedAfterInterruption ==
    /\ wpc.op = "idle"
    /\ wlast.op = "replay" /\ wlast.after_crash
    /\ wal_history.interrupted.nops > 1

\* C29: all-or-nothing across a crash during logging. When a crash occurs
\* while commit is appending the entries of a transaction with several ops
\* (some frames on WAL storage, others not), the replay after remount applies
\* either all of that transaction's ops or none of them.
C29_AllOrNothingAcrossCrash ==
    ReplayedAfterInterruption =>
        wal_history.replayed \in {0, wal_history.interrupted.nops}

\* Such a replay has returned Ok.
C29_Witness == ReplayedAfterInterruption /\ wlast.ok

\* ------------------------------------------------------------------ C30
\* C30: an applied transaction is never replayed. Once commit of a
\* transaction has returned success, no later replay recovers an entry of
\* that transaction, also when entries of other transactions were pending in
\* the WAL when it was cleared.
C30_AppliedNeverReplayed ==
    wpc.op = "replay" =>
        \A k \in DOMAIN wpc.entries :
            wpc.entries[k].txn_id \notin wal_history.committed

\* A replay recovers entries after some commit has returned success.
C30_Witness ==
    /\ wpc.op = "replay"
    /\ wpc.entries # <<>>
    /\ wal_history.committed # {}

\* ------------------------------------------------------------------ C31
\* The storage is a sequence of whole decodable frames that ends at cursor.
log_well_formed(sto, cursor) ==
    LET r == recover(sto)
    IN /\ r.next_offset = cursor
       /\ frames_end(r.entries) = cursor

\* WriteAheadLog::append whose storage write fails, for the prefix or for
\* the payload.
FailedAppend == AppendPrefix(TRUE) \/ AppendPayload(TRUE)

\* The log as the append found it: before its prefix write.
BeforeAppend == IF wpc.half THEN wal_next_offset - 4 ELSE wal_next_offset

\* C31: a failed WAL append leaves the log well-formed. When the storage
\* write of the length prefix or of the payload fails, append returns an
\* error, pushes nothing to the in-memory entries, and the frames on storage
\* stay decodable up to the cursor, as they were before the append.
C31_FailedAppendWellFormed ==
    [][(FailedAppend
        /\ log_well_formed(SubSeq(wal_storage, 1, BeforeAppend), BeforeAppend))
       => /\ ~wlast'.ok
          /\ wal_entries' = wal_entries
          /\ log_well_formed(wal_storage', wal_next_offset')]_vars

\* A commit has returned the error of a storage write of its append.
C31_Witness ==
    /\ wpc.op = "idle"
    /\ wlast.op \in {"commit", "commit_into_wal_only"} /\ ~wlast.ok
    /\ budget.faults < MaxFaults
    /\ Len(entries_of(wal_entries, wlast.id)) < wlast.nops

\* ------------------------------------------------------------------ C32
\* The ranges append_data returned since the mount are pairwise disjoint.
RangesDisjoint ==
    \A j, k \in DOMAIN history.appends :
        j < k => ~Overlaps(history.appends[j].ptr, history.appends[j].len,
                           history.appends[k].ptr, history.appends[k].len)

\* A step of write_at in which append_data returned Ok.
AppendReturned == pc.op = "idle" /\ pc'.op = "write_at"

\* A step of write_at in which the device write returned an error.
AppendFailed == WriteAtDevError(last'.ino, 0, <<>>)

\* A step that ends the mount and starts the next one.
Mounts ==
    Remount \/ Crash \/ (last'.op = "power_loss" /\ PowerLoss(last'.arg.lost))

\* C32: log cursor discipline. append_data returns the value next_append_pos
\* had before the call and on success advances the cursor by exactly the
\* length of the bytes; on a device write error the cursor is unchanged; the
\* cursor never decreases during a mount, and the ranges returned by
\* successful appends are pairwise disjoint.
C32_LogCursorDiscipline ==
    /\ []RangesDisjoint
    /\ [][/\ AppendReturned =>
                /\ pc'.p_ptr = next_append_pos
                /\ next_append_pos' = next_append_pos + Len(pc'.data)
          /\ AppendFailed => next_append_pos' = next_append_pos
          /\ ~Mounts => next_append_pos' >= next_append_pos]_vars

\* Two appends of this mount have returned, and then a device write failed.
C32_Witness ==
    /\ Idle
    /\ Len(history.appends) >= 2
    /\ last.op = "write_at" /\ ~last.ok

\* ------------------------------------------------------------------ C33
\* Every committed extent lies in the data log [db_reserved_size, DevEnd).
ExtentsInLog ==
    \A ino \in DOMAIN inodes :
        \A k \in DOMAIN inodes[ino].extents :
            LET e == inodes[ino].extents[k]
            IN /\ db_reserved_size <= e.physical_ptr
               /\ e.physical_ptr + e.len <= DevEnd

\* The write_at in progress appended a payload that reaches past the end of
\* the device: the device wrote fewer bytes than requested.
PayloadCutShort == pc.op = "write_at" /\ pc.p_ptr + Len(pc.data) > DevEnd

\* C33: extents stay inside the data-log region. Every committed extent lies
\* within [reserved, device_size), and a write_at whose payload does not fit
\* in the remaining log space fails instead of committing an extent whose
\* bytes were not fully written.
C33_ExtentsInsideLog ==
    /\ []ExtentsInLog
    /\ [][(PayloadCutShort /\ pc'.op = "idle" /\ last'.op = "write_at")
          => (~last'.ok /\ inodes' = inodes)]_vars

\* A write_at whose payload did not fit has returned.
C33_Witness ==
    /\ Idle
    /\ last.op = "write_at" /\ last.ok
    /\ last.arg.p_ptr + Len(last.arg.data) > DevEnd

\* ------------------------------------------------------------------ C34
\* The positions of the device that the committed extents of all inodes
\* reference.
Referenced ==
    {p \in DOMAIN disk :
        \E ino \in DOMAIN inodes : \E k \in DOMAIN inodes[ino].extents :
            LET e == inodes[ino].extents[k]
            IN e.physical_ptr <= p /\ p < e.physical_ptr + e.len}

\* C34: data-before-index ordering. In every write_at the payload is written
\* to the data log and the block device is flushed before the KV commit that
\* references its physical_ptr, so that in every state after a crash and
\* remount no committed inode record references a log range whose bytes were
\* not durably written.
C34_DataBeforeIndex ==
    last.op = "power_loss" => Referenced \cap last.arg.lost = {}

\* The device is mounted again after a power failure that followed a
\* write_at, and a committed extent references the log.
C34_Witness ==
    /\ last.op = "power_loss"
    /\ Referenced # {}

\* ------------------------------------------------------------------ C35
\* The log bytes at [physical_ptr, physical_ptr + len) of an extent.
extent_bytes(d, e) == read_data(d, e.physical_ptr, Zeros(e.len))

\* The stored crc of every extent of ino is the CRC-32 of its log bytes.
CrcConsistent(ino) ==
    ino \in DOMAIN inodes =>
        \A k \in DOMAIN inodes[ino].extents :
            LET e == inodes[ino].extents[k]
            IN crc32(extent_bytes(disk, e)) = e.crc

\* C35: CRC consistency of retained extents. After every write_at and every
\* truncate, for every extent in the inode's extent vector, an extent whose
\* len truncate shortened included, the CRC-32 of the log bytes at
\* [physical_ptr, physical_ptr + len) equals the extent's stored crc.
C35_CrcOfRetainedExtents ==
    (Idle /\ last.op \in {"write_at", "truncate"} /\ last.ok)
        => CrcConsistent(last.ino)

\* truncate has returned and an extent of the file ends at the new size.
C35_Witness ==
    /\ Idle
    /\ last.op = "truncate" /\ last.ok
    /\ \E k \in DOMAIN inodes[last.ino].extents :
          LET e == inodes[last.ino].extents[k]
          IN e.logical_off + e.len = last.arg.len

\* ------------------------------------------------------------------ C36
\* C36: extents never reach past the file size. In every state reachable by
\* any sequence of write_at, truncate and set_attr on an inode, every extent
\* of that inode satisfies logical_off + len <= size.
C36_ExtentsWithinSize ==
    \A ino \in DOMAIN inodes :
        \A k \in DOMAIN inodes[ino].extents :
            LET e == inodes[ino].extents[k]
            IN e.logical_off + e.len <= inodes[ino].size

\* set_attr has returned on a file that has extents.
C36_Witness ==
    /\ Idle
    /\ last.op = "set_attr" /\ last.ok
    /\ inodes[last.ino].extents # <<>>

\* ------------------------------------------------------------------ C37
\* meta.extents.iter().find(..): the index of the first extent that contains
\* current_offset, or 0.
RECURSIVE find_extent(_, _, _)
find_extent(extents, i, current_offset) ==
    IF i > Len(extents) THEN 0
    ELSE IF /\ current_offset >= extents[i].logical_off
            /\ current_offset < extents[i].logical_off + extents[i].len
         THEN i
         ELSE find_extent(extents, i + 1, current_offset)

\* TransactionEngine::read_from_log: the while loop.
RECURSIVE read_from_log_loop(_, _, _, _, _, _)
read_from_log_loop(d, meta, current_offset, buf_pos, bytes_read, buf) ==
    IF ~(buf_pos < Len(buf) /\ current_offset < meta.size)
    THEN [n |-> bytes_read, buf |-> buf]
    ELSE LET i == find_extent(meta.extents, 1, current_offset)
         IN IF i = 0 THEN [n |-> bytes_read, buf |-> buf]
            ELSE LET e == meta.extents[i]
                     off_in_extent == current_offset - e.logical_off
                     len_in_extent == Min(e.len - off_in_extent, Len(buf) - buf_pos)
                     physical_pos == e.physical_ptr + off_in_extent
                     slice == read_data(d, physical_pos,
                                        SubSeq(buf, buf_pos + 1, buf_pos + len_in_extent))
                     nbuf == [k \in 1..Len(buf) |->
                                IF k > buf_pos /\ k <= buf_pos + len_in_extent
                                THEN slice[k - buf_pos] ELSE buf[k]]
                 IN read_from_log_loop(d, meta, current_offset + len_in_extent,
                                       buf_pos + len_in_extent,
                                       bytes_read + len_in_extent, nbuf)

\* TransactionEngine::read_from_log on the caller's buffer buf.
read_from_log(d, meta, offset, buf) ==
    IF offset >= meta.size THEN [ok |-> TRUE, n |-> 0, buf |-> buf]
    ELSE LET r == read_from_log_loop(d, meta, offset, 0, 0, buf)
         IN [ok |-> TRUE, n |-> r.n, buf |-> r.buf]

\* Both read paths give the same byte count and the same bytes.
SameRead(ino, offset, buf) ==
    LET a == read_from_log(disk, inodes[ino], offset, buf)
        b == read_file(inodes, disk, ino, offset, buf)
    IN /\ a.n = b.n
       /\ SubSeq(a.buf, 1, a.n) = SubSeq(b.buf, 1, b.n)

\* C37: the two read paths agree. For every inode metadata reachable by
\* writes and truncates, every offset and every buffer length,
\* read_from_log(meta, offset, buf) and read_file(ino, offset, buf) return
\* the same byte count and the same bytes.
C37_ReadPathsAgree ==
    (Idle /\ FILE_INO \in DOMAIN inodes) =>
        \A offset \in ReadOffsets, n \in ReadLens :
            \A buf \in CallerBufs(n) : SameRead(FILE_INO, offset, buf)

\* Both paths return the same bytes, more than none, of a file with extents.
C37_Witness ==
    /\ Idle
    /\ inodes[FILE_INO].extents # <<>>
    /\ \E offset \in ReadOffsets, n \in ReadLens :
          \E buf \in CallerBufs(n) :
              /\ SameRead(FILE_INO, offset, buf)
              /\ read_file(inodes, disk, FILE_INO, offset, buf).n > 0

\* ------------------------------------------------------------------ C38
\* The extent that the write_at of thread t committed.
ExtentOf(t) ==
    LET w == trace[t].ops[1]
    IN Extent(w.offset, trace[t].events[1][2], Len(w.data), crc32(w.data))

WriteEnd(t) == trace[t].ops[1].offset + Len(trace[t].ops[1].data)

\* The write_at of thread t has returned success.
WriteReturned(t) ==
    /\ trace[t].call = "write_at"
    /\ trace[t].events # <<>>
    /\ trace[t].events[1][1] = "ok"

\* The size the file had before the two calls.
PriorSize == IF last.op = "truncate" THEN last.arg.len ELSE 0

\* What a reader, who holds the engine mutex, finds in the inode record:
\* the whole extents of the calls that have returned, and nothing else.
ReaderSeesWholeRecords ==
    Idle =>
        \A k \in DOMAIN inodes[FILE_INO].extents :
            \E t \in Threads :
                WriteReturned(t) /\ inodes[FILE_INO].extents[k] = ExtentOf(t)

Allocates == Idle /\ pc'.op \in {"create", "mkdir"}

\* C39: inode numbers are not reissued. Over any sequence of create, mkdir,
\* unlink and rmdir, allocate_inode never returns a number that an earlier
\* allocation returned, even after that inode was deleted, so a handle kept
\* for a deleted inode never refers to a later-created file.
C39_InodeNumbersNotReissued ==
    [][/\ Allocates => pc'.new_ino \notin handles
       /\ \A i \in handles : i \notin DOMAIN inodes => i \notin DOMAIN inodes']_vars

\* A caller holds a handle for a deleted inode and an allocation can run.
C39_Witness ==
    /\ Idle
    /\ \E i \in handles : i \notin DOMAIN inodes
    /\ next_ino(inodes) <= MaxIno

\* ------------------------------------------------------------------ C40
\* rename_to returns success in this step.
RenameReturnsOk == pc.op = "rename_to" /\ pc'.op = "idle" /\ last'.ok

\* rename_to is called in this step with an old name that is absent.
RenameOfAbsent ==
    \E parent \in Inos, old_name \in Names, new_parent \in Inos, new_name \in Names :
        /\ lookup_dentry(dirs, parent, old_name) = 0
        /\ RenameTo(parent, old_name, new_parent, new_name)

\* C40: rename postcondition. After rename(old_parent, old, new_parent, new)
\* returns success, lookup(new_parent, new) returns the inode that
\* (old_parent, old) named before the call, for every choice of arguments,
\* old_parent = new_parent with old = new included; when old is absent rename
\* returns NoEntry and changes nothing.
C40_RenamePostcondition ==
    [][/\ RenameReturnsOk =>
             lookup_dentry(dirs', pc.arg.new_parent, pc.arg.new_name)
                = lookup_dentry(pc.pre.dirs, pc.ino, pc.arg.old_name)
       /\ RenameOfAbsent =>
             /\ ~last'.ok /\ last'.ret = "NoEntry"
             /\ Snapshot' = Snapshot]_vars

\* rename of a name to itself in the same directory has returned success.
C40_Witness ==
    /\ Idle
    /\ last.op = "rename_to" /\ last.ok
    /\ last.arg.new_parent = last.ino
    /\ last.arg.new_name = last.arg.old_name

====
